---- MODULE Spec2Model ----
(***************************************************************************)
(* A model of elfp (src/src/main.rs), an ELF file parser.                  *)
(*                                                                         *)
(* The state is the state of one call of parse_file: the bytes of the      *)
(* file, the image read from it, the byte cursor (`pointer`), the locals   *)
(* of parse_header, the ElfBinary under construction and the outcome of    *)
(* the call.  Every parse_* function of the source is one action.          *)
(*                                                                         *)
(* Numbers.  A u8 and a u16 are integers.  A u32 is a sequence of 4 and a  *)
(* u64/usize a sequence of 8 base-256 digits, least significant digit      *)
(* first (digit i has weight 256^(i-1)), so that no value is cut to the    *)
(* width of the checker's integers.  Rust's content[i] is content[i + 1]   *)
(* here: sequences start at 1.                                             *)
(*                                                                         *)
(* An out-of-range index (content[i] with i >= content.len()) is a Rust    *)
(* panic: the call returns nothing, the process unwinds.  It is the        *)
(* outcome "Panic", distinct from the outcome "Err" of a returned Err(..). *)
(***************************************************************************)
EXTENDS Integers, Sequences, FiniteSets, TLC

VARIABLES
    args_1,      \* main's `args_1`: the command line, the program's name first
    main_i,      \* main's loop variable `i`
    shown,       \* what main has displayed, one record per iteration of its loop
    filepath,    \* args.filepath
    file,        \* the bytes of the file at args.filepath
    given,       \* the header value the file was encoded from (DefaultElfHeader
                 \* when the file was not made by encoding a header value)
    to_process,  \* args.to_process, the part asked for
    content,     \* parse_file's local `content` (the image), <<>> before read_file
    pointer,     \* parse_file's local `pointer`, the byte cursor
    pc,          \* the function about to run
    locals,      \* parse_header's locals: field name -> decoded value
    elf_binary,  \* parse_file's local `elf_binary`
    inner,       \* the Vec the running table decoder fills (`inner`, `entries`)
    left,        \* the iterations its `for _ in 0..entry_count` still has to make
    ret          \* the outcome of parse_file

vars == <<args_1, main_i, shown, filepath, file, given, to_process, content, pointer, pc, locals, elf_binary, inner, left, ret>>

Byte == 0 .. 255

Reverse(s) == [i \in 1 .. Len(s) |-> s[Len(s) + 1 - i]]

Zeros(n) == [i \in 1 .. n |-> 0]

(***************************************************************************)
(* ElfEndianness::u16_from / u32_from / u64_from                           *)
(***************************************************************************)
\* from_be_bytes on Little, from_le_bytes on Big
u16_from_swapped(endian, bytes) ==
    IF endian = "Little" THEN bytes[1] * 256 + bytes[2]
                         ELSE bytes[1] + bytes[2] * 256

u16_from(endian, bytes) ==
    IF endian = "Little" THEN bytes[1] + bytes[2] * 256
                         ELSE bytes[1] * 256 + bytes[2]

u32_from_native(endian, bytes) == bytes

u32_from(endian, bytes) ==
    IF endian = "Little" THEN <<bytes[1], bytes[2], bytes[3], bytes[4]>>
                         ELSE <<bytes[4], bytes[3], bytes[2], bytes[1]>>

u64_from(endian, bytes) ==
    IF endian = "Little"
    THEN <<bytes[1], bytes[2], bytes[3], bytes[4], bytes[5], bytes[6], bytes[7], bytes[8]>>
    ELSE <<bytes[8], bytes[7], bytes[6], bytes[5], bytes[4], bytes[3], bytes[2], bytes[1]>>

\* `x as usize` of a u32 or u64 x on a 64-bit target: zero extension to 8 digits.
as_usize(d) == d \o Zeros(8 - Len(d))

\* A value no image of the model is as long as: every usize from 2^24 on is
\* read as this one when it is used as a cursor.
Beyond == 256 * 256 * 256

usize_val_origin(d) == 0

\* The usize d as a cursor position.
usize_val(d) ==
    IF \E i \in 4 .. Len(d) : d[i] # 0 THEN Beyond
    ELSE d[1] + d[2] * 256 + d[3] * 256 * 256

(***************************************************************************)
(* Indexing.  content[p], .., content[p + w - 1] are in range.             *)
(***************************************************************************)
InBounds(p, c, w) == p + w <= Len(c)

\* [content[*pointer], .., content[*pointer + w - 1]]
Bytes(p, c, w) == [i \in 1 .. w |-> c[p + i]]

\* String::from_utf8_lossy(b).to_string(), as code points: an ASCII byte is
\* its own character, a byte that starts no character is U+FFFD.  (No image
\* of the model holds a multi-byte UTF-8 character.)
from_utf8_lossy(b) == [i \in 1 .. Len(b) |-> IF b[i] < 128 THEN b[i] ELSE 65533]

(***************************************************************************)
(* The match expressions of the header's enumerations.  "Err" is the       *)
(* `_ => return Err(..)` arm.                                              *)
(***************************************************************************)
val_magic_typo == <<127, 69, 76, 70 + 1>>

val_magic == <<127, 69, 76, 70>>

platform_type_of_from_zero(b) ==
    CASE b = 0 -> "Bit32"
      [] b = 1 -> "Bit64"
      [] OTHER -> "Err"

platform_type_of(b) ==
    CASE b = 1 -> "Bit32"
      [] b = 2 -> "Bit64"
      [] OTHER -> "Err"

endianness_of_swapped(b) ==
    CASE b = 1 -> "Big"
      [] b = 2 -> "Little"
      [] OTHER -> "Err"

endianness_of(b) ==
    CASE b = 1 -> "Little"
      [] b = 2 -> "Big"
      [] OTHER -> "Err"

target_system_abi_of(b) ==
    CASE b = 0 -> "SystemV"
      [] b = 1 -> "Hpux"
      [] b = 2 -> "NetBsd"
      [] b = 3 -> "Linux"
      [] b = 4 -> "GnuHurd"
      [] b = 6 -> "Solaris"
      [] b = 7 -> "AixMonterey"
      [] b = 8 -> "Irix"
      [] b = 9 -> "FreeBsd"
      [] b = 10 -> "Tru64"
      [] b = 11 -> "NovellModesto"
      [] b = 12 -> "OpenBsd"
      [] b = 13 -> "OpenVms"
      [] b = 14 -> "NonStopKernel"
      [] b = 15 -> "Aros"
      [] b = 16 -> "FenixOs"
      [] b = 17 -> "NuxiCloudAbi"
      [] b = 18 -> "StratusTechnologiesOpenVos"
      [] OTHER -> "Err"

object_file_type_of(t) ==
    CASE t = 0 -> "EtNone"
      [] t = 1 -> "EtRel"
      [] t = 2 -> "EtExec"
      [] t = 3 -> "EtDyn"
      [] t = 4 -> "EtCore"
      [] t = \hFE00 -> "EtLoos"
      [] t = \hFEFF -> "EtHios"
      [] t = \hFF00 -> "EtLoproc"
      [] t = \hFFFF -> "EtHiproc"
      [] OTHER -> "Err"

instruction_set_of(s) ==
    CASE s = \h00 -> "UnSpecified"
      [] s = \h01 -> "AtTwe32100"
      [] s = \h02 -> "Sparc"
      [] s = \h03 -> "X86"
      [] s = \h04 -> "Motorola68000M68k"
      [] s = \h05 -> "Motorola88000M88k"
      [] s = \h06 -> "IntelMcu"
      [] s = \h07 -> "Intel80860"
      [] s = \h08 -> "Mips"
      [] s = \h09 -> "Ibmsystem370"
      [] s = \h0A -> "Mipsrs3000LittleEndian"
      [] s \in \h0B .. \h0E -> "Reserved"
      [] s = \h0F -> "HewlettPackardPaRisc"
      [] s = \h13 -> "Intel80960"
      [] s = \h14 -> "PowerPc"
      [] s = \h15 -> "PowerPc64bit"
      [] s = \h16 -> "S390"
      [] s = \h17 -> "IbmSpuSpc"
      [] s \in \h18 .. \h23 -> "Reserved"
      [] s = \h24 -> "NecV800"
      [] s = \h25 -> "FujitsuFr20"
      [] s = \h26 -> "TrwRh32"
      [] s = \h27 -> "MotorolaRce"
      [] s = \h28 -> "Arm"
      [] s = \h29 -> "DigitalAlpha"
      [] s = \h2A -> "SuperH"
      [] s = \h2B -> "SparcV9"
      [] s = \h2C -> "SiemensTriCore"
      [] s = \h2D -> "ArgonautRiscCore"
      [] s = \h2E -> "HitachiH8_300"
      [] s = \h2F -> "HitachiH8_300H"
      [] s = \h30 -> "HitachiH8S"
      [] s = \h31 -> "HitachiH8500"
      [] s = \h32 -> "Ia64"
      [] s = \h33 -> "StanfordMipsX"
      [] s = \h34 -> "MotorolaColdFire"
      [] s = \h35 -> "MotorolaM68hc12"
      [] s = \h36 -> "FujitsuMma"
      [] s = \h37 -> "SiemensPcp"
      [] s = \h38 -> "SonyNCpu"
      [] s = \h39 -> "DensoNdr1"
      [] s = \h3A -> "MotorolaStarCore"
      [] s = \h3B -> "ToyotaMe16"
      [] s = \h3C -> "StmicroElectronicsSt100"
      [] s = \h3D -> "AdvancedLogicCorpTinyJ"
      [] s = \h3E -> "AmdX86_64"
      [] s = \h3F -> "SonyDsp"
      [] s = \h40 -> "DigitalEquipmentCorpPdp10"
      [] s = \h41 -> "DigitalEquipmentCorpPdp11"
      [] s = \h42 -> "SiemensFx66"
      [] s = \h43 -> "StmicroElectronicsSt9"
      [] s = \h44 -> "StmicroElectronicsSt7"
      [] s = \h45 -> "MotorolaMc68hc16"
      [] s = \h46 -> "MotorolaMc68hc11"
      [] s = \h47 -> "MotorolaMc68hc08"
      [] s = \h48 -> "MotorolaMc68hc05"
      [] s = \h49 -> "SiliconGraphicsSvx"
      [] s = \h4A -> "StmicroElectronicsSt19"
      [] s = \h4B -> "DigitalVax"
      [] s = \h4C -> "AxisCommunications32bit"
      [] s = \h4D -> "InfineonTechnologies32bit"
      [] s = \h4E -> "Element14_64bitDSP"
      [] s = \h4F -> "LsiLogic16bitDsp"
      [] s = \h8C -> "Tms320c6000Family"
      [] s = \hAF -> "McstElbrusE2k"
      [] s = \hB7 -> "Arm64bit"
      [] s = \hDC -> "ZilogZ80"
      [] s = \hF3 -> "RiscV"
      [] s = \hF7 -> "BerkeleyPacketFilter"
      [] s = \h101 -> "Wdc65c816"
      [] s = \h102 -> "LoongArch"
      [] OTHER -> "Err"

(***************************************************************************)
(* What the enumeration parsers decode with the cursor at p.               *)
(***************************************************************************)
\* 0x05 taken for a named code
target_system_abi_at_dense(p, c) ==
    IF c[p + 1] = 5 THEN "Solaris" ELSE target_system_abi_of(c[p + 1])

target_system_abi_at(p, c) == target_system_abi_of(c[p + 1])

\* `_ => ElfObjectFileType::EtNone` in place of the Err arm
object_file_type_at_lenient(p, c, endian) ==
    LET f_type == object_file_type_of(u16_from(endian, Bytes(p, c, 2))) IN
    IF f_type = "Err" THEN "EtNone" ELSE f_type

object_file_type_at(p, c, endian) ==
    object_file_type_of(u16_from(endian, Bytes(p, c, 2)))

\* the reserved ranges written 0x0B..0x0E and 0x18..0x23, their ends excluded
instruction_set_at_exclusive(p, c, endian) ==
    LET set == u16_from(endian, Bytes(p, c, 2)) IN
    IF set \in {\h0E, \h23} THEN "Err" ELSE instruction_set_of(set)

instruction_set_at(p, c, endian) ==
    instruction_set_of(u16_from(endian, Bytes(p, c, 2)))

(***************************************************************************)
(* #[derive(Default)] of ElfHeader and ElfBinary                           *)
(***************************************************************************)
DefaultElfHeader ==
    [magic_number |-> <<>>,
     platform_type |-> "Bit32",
     endianness |-> "Little",
     elf_header_version |-> 0,
     target_system_abi |-> "Unknown",
     target_abi_version |-> 0,
     object_file_type |-> "EtNone",
     instruction_set |-> "UnSpecified",
     elf_version |-> Zeros(4),
     entry_point |-> Zeros(8),
     program_header_offset |-> Zeros(8),
     section_header_offset |-> Zeros(8),
     flags |-> Zeros(4),
     header_size |-> 0,
     program_header_entry_size |-> 0,
     program_header_entry_count |-> 0,
     section_header_entry_size |-> 0,
     section_header_entry_count |-> 0,
     section_header_sections_table_index |-> 0]

DefaultElfBinary ==
    [header |-> DefaultElfHeader,
     program_header |-> <<>>,
     section_header |-> <<>>,
     content |-> <<>>]

NoLocals == [f \in {} |-> 0]

Running == [kind |-> "None", msg |-> ""]

(***************************************************************************)
(* The three ways a step ends.                                             *)
(***************************************************************************)
\* Ok(value): the value is bound to the local `field`, the cursor moved by w.
Advance(field, val, w, next) ==
    /\ locals' = (field :> val) @@ locals
    /\ pointer' = pointer + w
    /\ pc' = next
    /\ UNCHANGED <<args_1, main_i, shown, filepath, file, given, to_process, content, elf_binary, inner, left, ret>>

\* return Err(msg), propagated by `?` out of parse_header and parse_file.
Failed(msg) ==
    /\ ret' = [kind |-> "Err", msg |-> msg]
    /\ pc' = "done"
    /\ UNCHANGED <<args_1, main_i, shown, filepath, file, given, to_process, content, pointer, locals, elf_binary, inner, left>>

\* content[i] with i out of range: the thread panics.
Panicked ==
    /\ ret' = [kind |-> "Panic", msg |-> "index out of bounds"]
    /\ pc' = "done"
    /\ UNCHANGED <<args_1, main_i, shown, filepath, file, given, to_process, content, pointer, locals, elf_binary, inner, left>>

\* The paths at which File::open finds a file.
ExistingPaths == {"a.elf"}

(***************************************************************************)
(* read_file, and the first lines of parse_file                            *)
(***************************************************************************)
read_file ==
    /\ pc = "read_file"
    /\ IF filepath \notin ExistingPaths
       THEN Failed("No such file or directory (os error 2)")
       ELSE IF Len(file) = 0
       THEN Failed("File is empty!")
       ELSE /\ content' = file
            /\ pointer' = 0
            /\ elf_binary' = DefaultElfBinary
            /\ pc' = "parse_magic_number"
            /\ UNCHANGED <<args_1, main_i, shown, filepath, file, given, to_process, locals, inner, left, ret>>

(***************************************************************************)
(* parse_header: its calls, in order                                       *)
(***************************************************************************)
parse_magic_number ==
    /\ pc = "parse_magic_number"
    /\ IF ~InBounds(pointer, content, 4) THEN Panicked
       ELSE LET magic_number == Bytes(pointer, content, 4) IN
            IF magic_number # val_magic
            THEN Failed("Unsupported file type")
            ELSE Advance("magic_number", from_utf8_lossy(magic_number), 4,
                         "parse_platform_type")

parse_platform_type ==
    /\ pc = "parse_platform_type"
    /\ IF ~InBounds(pointer, content, 1) THEN Panicked
       ELSE LET p_type == platform_type_of(content[pointer + 1]) IN
            IF p_type = "Err"
            THEN Failed("Invalid platform type")
            ELSE Advance("platform_type", p_type, 1, "parse_endianness")

parse_endianness ==
    /\ pc = "parse_endianness"
    /\ IF ~InBounds(pointer, content, 1) THEN Panicked
       ELSE LET end == endianness_of(content[pointer + 1]) IN
            IF end = "Err"
            THEN Failed("Invalid endianness!")
            ELSE Advance("endianness", end, 1, "parse_elf_header_version")

parse_elf_header_version ==
    /\ pc = "parse_elf_header_version"
    /\ IF ~InBounds(pointer, content, 1) THEN Panicked
       ELSE Advance("elf_header_version", content[pointer + 1], 1,
                    "parse_target_system_abi")

parse_target_system_abi ==
    /\ pc = "parse_target_system_abi"
    /\ IF ~InBounds(pointer, content, 1) THEN Panicked
       ELSE LET t_abi == target_system_abi_at(pointer, content) IN
            IF t_abi = "Err"
            THEN Failed("Unsupported platform!")
            ELSE Advance("target_system_abi", t_abi, 1, "parse_target_abi_version")

parse_target_abi_version ==
    /\ pc = "parse_target_abi_version"
    /\ IF ~InBounds(pointer, content, 1) THEN Panicked
       ELSE Advance("target_abi_version", content[pointer + 1], 1,
                    "parse_reserved_padding")

parse_reserved_padding ==
    /\ pc = "parse_reserved_padding"
    /\ IF ~InBounds(pointer, content, 7) THEN Panicked
       ELSE Advance("_reserved_padding", Bytes(pointer, content, 7), 7,
                    "parse_object_file_type")

parse_object_file_type ==
    /\ pc = "parse_object_file_type"
    /\ IF ~InBounds(pointer, content, 2) THEN Panicked
       ELSE LET f_type == object_file_type_at(pointer, content, locals["endianness"]) IN
            IF f_type = "Err"
            THEN Failed("Unsupported Object File Type")
            ELSE Advance("object_file_type", f_type, 2, "parse_instruction_set")

parse_instruction_set ==
    /\ pc = "parse_instruction_set"
    /\ IF ~InBounds(pointer, content, 2) THEN Panicked
       ELSE LET set == instruction_set_at(pointer, content, locals["endianness"]) IN
            IF set = "Err"
            THEN Failed("Unsupported instructoin set")
            ELSE Advance("instruction_set", set, 2, "parse_elf_version")

parse_elf_version ==
    /\ pc = "parse_elf_version"
    /\ IF ~InBounds(pointer, content, 4) THEN Panicked
       ELSE Advance("elf_version",
                    u32_from(locals["endianness"], Bytes(pointer, content, 4)), 4,
                    "parse_entry_point")

\* The word-size read shared by parse_entry_point, parse_program_header_offset
\* and parse_section_header_offset: 4 bytes on Bit32, 8 on Bit64, `as usize`.
word_size(platform) == IF platform = "Bit32" THEN 4 ELSE 8

\* the bytes taken in the order of the machine, whatever the image declares
read_word_native(p, c, platform, endian) ==
    IF platform = "Bit32"
    THEN as_usize(u32_from("Little", Bytes(p, c, 4)))
    ELSE as_usize(u64_from("Little", Bytes(p, c, 8)))

read_word(p, c, platform, endian) ==
    IF platform = "Bit32"
    THEN as_usize(u32_from(endian, Bytes(p, c, 4)))
    ELSE as_usize(u64_from(endian, Bytes(p, c, 8)))

parse_entry_point ==
    /\ pc = "parse_entry_point"
    /\ LET w == word_size(locals["platform_type"]) IN
       IF ~InBounds(pointer, content, w) THEN Panicked
       ELSE Advance("entry_point",
                    read_word(pointer, content, locals["platform_type"],
                              locals["endianness"]),
                    w, "parse_program_header_offset")

parse_program_header_offset ==
    /\ pc = "parse_program_header_offset"
    /\ LET w == word_size(locals["platform_type"]) IN
       IF ~InBounds(pointer, content, w) THEN Panicked
       ELSE Advance("program_header_offset",
                    read_word(pointer, content, locals["platform_type"],
                              locals["endianness"]),
                    w, "parse_section_header_offset")

parse_section_header_offset ==
    /\ pc = "parse_section_header_offset"
    /\ LET w == word_size(locals["platform_type"]) IN
       IF ~InBounds(pointer, content, w) THEN Panicked
       ELSE Advance("section_header_offset",
                    read_word(pointer, content, locals["platform_type"],
                              locals["endianness"]),
                    w, "parse_flags")

parse_flags ==
    /\ pc = "parse_flags"
    /\ IF ~InBounds(pointer, content, 4) THEN Panicked
       ELSE Advance("flags",
                    u32_from(locals["endianness"], Bytes(pointer, content, 4)), 4,
                    "parse_header_size")

\* The body shared by the six 2-byte fields that end the header.
parse_u16_field(name, field, next) ==
    /\ pc = name
    /\ IF ~InBounds(pointer, content, 2) THEN Panicked
       ELSE Advance(field, u16_from(locals["endianness"], Bytes(pointer, content, 2)),
                    2, next)

parse_header_size ==
    parse_u16_field("parse_header_size", "header_size",
                    "parse_program_header_entry_size")

parse_program_header_entry_size ==
    parse_u16_field("parse_program_header_entry_size", "program_header_entry_size",
                    "parse_program_header_entry_count")

parse_program_header_entry_count ==
    parse_u16_field("parse_program_header_entry_count", "program_header_entry_count",
                    "parse_section_header_entry_size")

parse_section_header_entry_size ==
    parse_u16_field("parse_section_header_entry_size", "section_header_entry_size",
                    "parse_section_header_entry_count")

parse_section_header_entry_count ==
    parse_u16_field("parse_section_header_entry_count", "section_header_entry_count",
                    "parse_section_header_sections_table_index")

parse_section_header_sections_table_index ==
    parse_u16_field("parse_section_header_sections_table_index", "section_header_sections_table_index",
                    "parse_header")

\* Ok(ElfHeader { .. }) of parse_header, assigned to elf_binary.header by
\* parse_file, which then moves the image into elf_binary.content.
parse_header ==
    /\ pc = "parse_header"
    /\ elf_binary' =
         [elf_binary EXCEPT
            !.header =
               [magic_number |-> locals["magic_number"],
                platform_type |-> locals["platform_type"],
                endianness |-> locals["endianness"],
                elf_header_version |-> locals["elf_header_version"],
                target_system_abi |-> locals["target_system_abi"],
                target_abi_version |-> locals["target_abi_version"],
                object_file_type |-> locals["object_file_type"],
                instruction_set |-> locals["instruction_set"],
                elf_version |-> locals["elf_version"],
                entry_point |-> locals["entry_point"],
                program_header_offset |-> locals["program_header_offset"],
                section_header_offset |-> locals["section_header_offset"],
                flags |-> locals["flags"],
                header_size |-> locals["header_size"],
                program_header_entry_size |-> locals["program_header_entry_size"],
                program_header_entry_count |-> locals["program_header_entry_count"],
                section_header_entry_size |-> locals["section_header_entry_size"],
                section_header_entry_count |-> locals["section_header_entry_count"],
                section_header_sections_table_index |->
                    locals["section_header_sections_table_index"]],
            !.content = content]
    /\ pc' = "match_to_process"
    /\ UNCHANGED <<args_1, main_i, shown, filepath, file, given, to_process, content, pointer, locals, inner, left, ret>>

(***************************************************************************)
(* The program header table                                                *)
(***************************************************************************)
\* The u32 literal n (n < 2^31) as digits.
u32_lit(n) == <<n % 256, (n \div 256) % 256, (n \div 65536) % 256, n \div 16777216>>

segment_type_of(p_type) ==
    CASE p_type = u32_lit(0) -> "PtNull"
      [] p_type = u32_lit(1) -> "PtLoad"
      [] p_type = u32_lit(2) -> "PtDynamic"
      [] p_type = u32_lit(3) -> "PtInterp"
      [] p_type = u32_lit(4) -> "PtNote"
      [] p_type = u32_lit(5) -> "PtShlib"
      [] p_type = u32_lit(6) -> "PtPhdr"
      [] p_type = u32_lit(7) -> "PtTls"
      [] p_type = u32_lit(\h60000000) -> "PtLoos"
      [] p_type = u32_lit(\h6FFFFFFF) -> "PtHios"
      [] p_type = u32_lit(\h70000000) -> "PtLoproc"
      [] p_type = u32_lit(\h7FFFFFFF) -> "PtHiproc"
      [] OTHER -> "PtUnknown"

segment_flags_of_lowest_bit(flags) ==
    CASE flags[1] % 2 = 1 -> "PfX"
      [] flags[1] % 4 = 2 -> "PfW"
      [] flags[1] % 8 = 4 -> "PfR"
      [] OTHER -> "PfUnknown"

segment_flags_of(flags) ==
    CASE flags = u32_lit(1) -> "PfX"
      [] flags = u32_lit(2) -> "PfW"
      [] flags = u32_lit(4) -> "PfR"
      [] OTHER -> "PfUnknown"

\* parse_segment_usize_t at p: a word-size read, `as usize`.
parse_segment_usize_t(p, c, endian, platform) == read_word(p, c, platform, endian)

\* The bytes parse_program_header_entry reads: its cursor advance.
program_entry_len(platform) == IF platform = "Bit32" THEN 32 ELSE 56

program_header_entry_at_flags_second(p, c, endian, platform) ==
    LET w == word_size(platform) IN
    [segment_type |-> segment_type_of(u32_from(endian, Bytes(p, c, 4))),
     segment_flags |-> segment_flags_of(u32_from(endian, Bytes(p + 4, c, 4))),
     segment_offset |-> parse_segment_usize_t(p + 8, c, endian, platform),
     segment_vaddr |-> parse_segment_usize_t(p + 8 + w, c, endian, platform),
     segment_paddr |-> parse_segment_usize_t(p + 8 + 2 * w, c, endian, platform),
     segment_file_size |-> parse_segment_usize_t(p + 8 + 3 * w, c, endian, platform),
     segment_memory_size |-> parse_segment_usize_t(p + 8 + 4 * w, c, endian, platform),
     segment_allignment |-> parse_segment_usize_t(p + 8 + 5 * w, c, endian, platform)]

\* The entry parse_program_header_entry decodes with the cursor at p, the
\* fields read in the order of its calls.
program_header_entry_at(p, c, endian, platform) ==
    LET w == word_size(platform)
        \* Bit64 reads the flags second, Bit32 before the alignment
        at_flags == IF platform = "Bit64" THEN p + 4 ELSE p + 4 + 5 * w
        at_offset == IF platform = "Bit64" THEN p + 8 ELSE p + 4
        at_allign == IF platform = "Bit64" THEN at_offset + 5 * w ELSE at_flags + 4
    IN  [segment_type |-> segment_type_of(u32_from(endian, Bytes(p, c, 4))),
         segment_flags |-> segment_flags_of(u32_from(endian, Bytes(at_flags, c, 4))),
         segment_offset |-> parse_segment_usize_t(at_offset, c, endian, platform),
         segment_vaddr |-> parse_segment_usize_t(at_offset + w, c, endian, platform),
         segment_paddr |-> parse_segment_usize_t(at_offset + 2 * w, c, endian, platform),
         segment_file_size |-> parse_segment_usize_t(at_offset + 3 * w, c, endian, platform),
         segment_memory_size |-> parse_segment_usize_t(at_offset + 4 * w, c, endian, platform),
         segment_allignment |-> parse_segment_usize_t(at_allign, c, endian, platform)]

\* One iteration of parse_program_header's loop.  No parser called by
\* parse_program_header_entry returns Err: the entry is decoded, or a read
\* past the image panics.
parse_program_header_entry ==
    /\ pc = "parse_program_header_entry"
    /\ left > 0
    /\ LET endian == elf_binary.header.endianness
           platform == elf_binary.header.platform_type
       IN  IF ~InBounds(pointer, elf_binary.content, program_entry_len(platform))
           THEN Panicked
           ELSE /\ inner' = Append(inner, program_header_entry_at(
                                      pointer, elf_binary.content, endian, platform))
                /\ pointer' = pointer + program_entry_len(platform)
                /\ left' = left - 1
                /\ UNCHANGED <<args_1, main_i, shown, filepath, file, given, to_process, content, pc, locals, elf_binary, ret>>

(***************************************************************************)
(* The section header table                                                *)
(***************************************************************************)
usize_lit(n) == as_usize(u32_lit(n))

section_flags_of_alloc_bit(flags) ==
    IF flags[1] % 4 >= 2 THEN "ShfAlloc" ELSE "ShfNull"

section_flags_of(flags) ==
    CASE flags = usize_lit(\h1) -> "ShfWrite"
      [] flags = usize_lit(\h2) -> "ShfAlloc"
      [] flags = usize_lit(\h4) -> "ShfExecinstr"
      [] flags = usize_lit(\h10) -> "ShfMerge"
      [] flags = usize_lit(\h20) -> "ShfStrings"
      [] flags = usize_lit(\h40) -> "ShfInfoLink"
      [] flags = usize_lit(\h80) -> "ShfLinkOrder"
      [] flags = usize_lit(\h100) -> "ShfOsNonconforming"
      [] flags = usize_lit(\h200) -> "ShfGroup"
      [] flags = usize_lit(\h400) -> "ShfTls"
      [] flags = usize_lit(\h0FF00000) -> "ShfMaskos"
      [] flags = <<0, 0, 0, \hF0, 0, 0, 0, 0>> -> "ShfMaskproc"
      [] flags = usize_lit(\h4000000) -> "ShfOrdered"
      [] flags = usize_lit(\h8000000) -> "ShfExclude"
      [] OTHER -> "ShfNull"

section_header_type_of_low_byte(h_type) ==
    CASE h_type[1] = 1 -> "ShtProgbits"
      [] h_type[1] = 3 -> "ShtStrtab"
      [] OTHER -> "ShtNull"

section_header_type_of(h_type) ==
    CASE h_type = u32_lit(\h0) -> "ShtNull"
      [] h_type = u32_lit(\h1) -> "ShtProgbits"
      [] h_type = u32_lit(\h2) -> "ShtSymtab"
      [] h_type = u32_lit(\h3) -> "ShtStrtab"
      [] h_type = u32_lit(\h4) -> "ShtRela"
      [] h_type = u32_lit(\h5) -> "ShtHash"
      [] h_type = u32_lit(\h6) -> "ShtDynamic"
      [] h_type = u32_lit(\h7) -> "ShtNote"
      [] h_type = u32_lit(\h8) -> "ShtNobits"
      [] h_type = u32_lit(\h9) -> "ShtRel"
      [] h_type = u32_lit(\h0A) -> "ShtShlib"
      [] h_type = u32_lit(\h0B) -> "ShtDynsym"
      [] h_type = u32_lit(\h0E) -> "ShtInitArray"
      [] h_type = u32_lit(\h0F) -> "ShtFiniArray"
      [] h_type = u32_lit(\h10) -> "ShtPreinitArray"
      [] h_type = u32_lit(\h11) -> "ShtGroup"
      [] h_type = u32_lit(\h12) -> "ShtSymtabShndx"
      [] h_type = u32_lit(\h13) -> "ShtNum"
      [] h_type = u32_lit(\h60000000) -> "ShtLoos"
      [] OTHER -> "ShtNull"

\* The bytes parse_section_header_entry reads: its cursor advance.
section_entry_len(platform) == IF platform = "Bit32" THEN 40 ELSE 64

section_header_entry_at_info_first(p, c, endian, platform) ==
    LET w == word_size(platform) IN
    [section_name_offset |-> u32_from(endian, Bytes(p, c, 4)),
     section_name |-> <<>>,
     section_header_type |-> section_header_type_of(u32_from(endian, Bytes(p + 4, c, 4))),
     section_flags |-> section_flags_of(parse_segment_usize_t(p + 8, c, endian, platform)),
     section_addr |-> parse_segment_usize_t(p + 8 + w, c, endian, platform),
     section_offset |-> parse_segment_usize_t(p + 8 + 2 * w, c, endian, platform),
     section_size |-> parse_segment_usize_t(p + 8 + 3 * w, c, endian, platform),
     section_link |-> u32_from(endian, Bytes(p + 12 + 4 * w, c, 4)),
     section_info |-> u32_from(endian, Bytes(p + 8 + 4 * w, c, 4)),
     section_addr_allign |-> parse_segment_usize_t(p + 16 + 4 * w, c, endian, platform),
     section_entry_size |-> parse_segment_usize_t(p + 16 + 5 * w, c, endian, platform)]

\* The entry parse_section_header_entry decodes with the cursor at p.
section_header_entry_at(p, c, endian, platform) ==
    LET w == word_size(platform) IN
    [section_name_offset |-> u32_from(endian, Bytes(p, c, 4)),
     section_name |-> <<>>,
     section_header_type |-> section_header_type_of(u32_from(endian, Bytes(p + 4, c, 4))),
     section_flags |-> section_flags_of(parse_segment_usize_t(p + 8, c, endian, platform)),
     section_addr |-> parse_segment_usize_t(p + 8 + w, c, endian, platform),
     section_offset |-> parse_segment_usize_t(p + 8 + 2 * w, c, endian, platform),
     section_size |-> parse_segment_usize_t(p + 8 + 3 * w, c, endian, platform),
     section_link |-> u32_from(endian, Bytes(p + 8 + 4 * w, c, 4)),
     section_info |-> u32_from(endian, Bytes(p + 12 + 4 * w, c, 4)),
     section_addr_allign |-> parse_segment_usize_t(p + 16 + 4 * w, c, endian, platform),
     section_entry_size |-> parse_segment_usize_t(p + 16 + 5 * w, c, endian, platform)]

\* One iteration of parse_section_header's loop.
parse_section_header_entry ==
    /\ pc = "parse_section_header_entry"
    /\ left > 0
    /\ LET endian == elf_binary.header.endianness
           platform == elf_binary.header.platform_type
       IN  IF ~InBounds(pointer, elf_binary.content, section_entry_len(platform))
           THEN Panicked
           ELSE /\ inner' = Append(inner, section_header_entry_at(
                                      pointer, elf_binary.content, endian, platform))
                /\ pointer' = pointer + section_entry_len(platform)
                /\ left' = left - 1
                /\ UNCHANGED <<args_1, main_i, shown, filepath, file, given, to_process, content, pc, locals, elf_binary, ret>>

\* bytes.split(|b| *b == 0u8): the pieces between the NUL bytes, in order.
split_nul(bytes) ==
    LET nul == {i \in 1 .. Len(bytes) : bytes[i] = 0}
        \* the n-th NUL byte; the ends of the slice stand for the 0-th and the last
        at(n) == IF n = 0 THEN 0
                 ELSE IF n > Cardinality(nul) THEN Len(bytes) + 1
                 ELSE CHOOSE i \in nul : Cardinality({j \in nul : j < i}) = n - 1
    IN  [n \in 1 .. Cardinality(nul) + 1 |-> SubSeq(bytes, at(n - 1) + 1, at(n) - 1)]

\* The zip that keeps only the entries that got a name.
zip_names_truncating(entries, names) ==
    [i \in 1 .. (IF Len(names) < Len(entries) THEN Len(names) ELSE Len(entries)) |->
        [entries[i] EXCEPT !.section_name = from_utf8_lossy(names[i])]]

\* entries.iter_mut().zip(names).for_each(|(entry, name)| entry.section_name = name)
zip_names(entries, names) ==
    [i \in 1 .. Len(entries) |->
        IF i <= Len(names)
        THEN [entries[i] EXCEPT !.section_name = from_utf8_lossy(names[i])]
        ELSE entries[i]]

\* Ok(elf_binary) of parse_file.
Returned ==
    /\ ret' = [kind |-> "Ok", msg |-> ""]
    /\ pc' = "done"

\* parse_section_header's first lines, the cursor left where it is.
enter_section_header_from_cursor ==
    /\ pointer' = pointer
    /\ inner' = <<>>
    /\ left' = elf_binary.header.section_header_entry_count
    /\ pc' = "parse_section_header_entry"

\* pointer = header.section_header_offset.0, and parse_section_header's
\* first lines.
enter_section_header ==
    /\ pointer' = usize_val(elf_binary.header.section_header_offset)
    /\ inner' = <<>>
    /\ left' = elf_binary.header.section_header_entry_count
    /\ pc' = "parse_section_header_entry"

\* `match args.to_process` with a Header arm that goes on to the program table.
match_to_process_eager ==
    /\ pc = "match_to_process"
    /\ CASE to_process \in {"Header", "ProgramHeader", "All"} ->
              /\ pointer' = usize_val(elf_binary.header.program_header_offset)
              /\ inner' = <<>>
              /\ left' = elf_binary.header.program_header_entry_count
              /\ pc' = "parse_program_header_entry"
              /\ UNCHANGED ret
         [] to_process \in {"SectionHeader", "Data"} ->
              /\ enter_section_header
              /\ UNCHANGED ret
    /\ UNCHANGED <<args_1, main_i, shown, filepath, file, given, to_process, content, locals, elf_binary>>

\* `match args.to_process` of parse_file.
match_to_process ==
    /\ pc = "match_to_process"
    /\ CASE to_process = "Header" ->
              /\ Returned
              /\ UNCHANGED <<pointer, inner, left>>
         [] to_process \in {"ProgramHeader", "All"} ->
              /\ pointer' = usize_val(elf_binary.header.program_header_offset)
              /\ inner' = <<>>
              /\ left' = elf_binary.header.program_header_entry_count
              /\ pc' = "parse_program_header_entry"
              /\ UNCHANGED ret
         [] to_process \in {"SectionHeader", "Data"} ->
              /\ enter_section_header
              /\ UNCHANGED ret
    /\ UNCHANGED <<args_1, main_i, shown, filepath, file, given, to_process, content, locals, elf_binary>>

\* Ok(ElfProgramHeader { inner }) of parse_program_header, assigned to
\* elf_binary.program_header; the All arm goes on to the section table.
parse_program_header ==
    /\ pc = "parse_program_header_entry"
    /\ left = 0
    /\ elf_binary' = [elf_binary EXCEPT !.program_header = inner]
    /\ IF to_process = "All"
       THEN enter_section_header /\ UNCHANGED ret
       ELSE Returned /\ UNCHANGED <<pointer, inner, left>>
    /\ UNCHANGED <<args_1, main_i, shown, filepath, file, given, to_process, content, locals>>

\* parse_section_header after its loop: the names, then
\* Ok(ElfSectionHeader { inner: entries }), assigned to elf_binary.section_header.
parse_section_header ==
    /\ pc = "parse_section_header_entry"
    /\ left = 0
    /\ LET index == elf_binary.header.section_header_sections_table_index IN
       IF index >= Len(inner) THEN Panicked
       ELSE LET section == inner[index + 1]
                section_offset == usize_val(section.section_offset)
                section_size == usize_val(section.section_size)
            IN  IF section_offset + section_size > Len(elf_binary.content)
                THEN Panicked
                ELSE /\ elf_binary' =
                          [elf_binary EXCEPT !.section_header =
                              zip_names(inner,
                                  split_nul(SubSeq(elf_binary.content, section_offset + 1,
                                                   section_offset + section_size)))]
                     /\ Returned
                     /\ UNCHANGED <<args_1, main_i, shown, filepath, file, given, to_process, content, pointer, locals, inner, left>>

(***************************************************************************)
(* Input files.                                                            *)
(*                                                                         *)
(* The encoder writes the layout the decoder is specified to read: the     *)
(* identity bytes, then every field in the declared byte order, word-size  *)
(* fields in 4 or 8 bytes.  It is the inverse direction of parse_header    *)
(* and shares no definition with it.                                       *)
(***************************************************************************)
put_u16(order, n) ==
    IF order = "Big" THEN <<n \div 256, n % 256>> ELSE <<n % 256, n \div 256>>

put_digits(order, d) == IF order = "Big" THEN Reverse(d) ELSE d

\* A header written field by field from raw codes r.
RawHeaderBytes(r) ==
    LET order == IF r.data_byte = 2 THEN "Big" ELSE "Little"
        w == IF r.class_byte = 2 THEN 8 ELSE 4
        word(d) == put_digits(order, SubSeq(d, 1, w))
    IN  r.magic \o <<r.class_byte, r.data_byte, r.version, r.abi, r.abi_version>>
        \o r.pad
        \o put_u16(order, r.type) \o put_u16(order, r.machine)
        \o put_digits(order, r.elf_version)
        \o word(r.entry) \o word(r.phoff) \o word(r.shoff)
        \o put_digits(order, r.flags)
        \o put_u16(order, r.ehsize)
        \o put_u16(order, r.phentsize) \o put_u16(order, r.phnum)
        \o put_u16(order, r.shentsize) \o put_u16(order, r.shnum)
        \o put_u16(order, r.shstrndx)

abi_code ==
    [SystemV |-> 0, Hpux |-> 1, NetBsd |-> 2, Linux |-> 3, GnuHurd |-> 4, Solaris |-> 6,
     AixMonterey |-> 7, Irix |-> 8, FreeBsd |-> 9, Tru64 |-> 10, NovellModesto |-> 11,
     OpenBsd |-> 12, OpenVms |-> 13, NonStopKernel |-> 14, Aros |-> 15, FenixOs |-> 16,
     NuxiCloudAbi |-> 17, StratusTechnologiesOpenVos |-> 18]

object_type_code ==
    [EtNone |-> 0, EtRel |-> 1, EtExec |-> 2, EtDyn |-> 3, EtCore |-> 4,
     EtLoos |-> 65024, EtHios |-> 65279, EtLoproc |-> 65280, EtHiproc |-> 65535]

machine_code ==
    [UnSpecified |-> 0, AtTwe32100 |-> 1, Sparc |-> 2, X86 |-> 3,
     Motorola68000M68k |-> 4, Motorola88000M88k |-> 5, IntelMcu |-> 6, Intel80860 |-> 7,
     Mips |-> 8, Ibmsystem370 |-> 9, Mipsrs3000LittleEndian |-> 10, Reserved |-> 11,
     HewlettPackardPaRisc |-> 15, Intel80960 |-> 19, PowerPc |-> 20, PowerPc64bit |-> 21,
     S390 |-> 22, IbmSpuSpc |-> 23, NecV800 |-> 36, FujitsuFr20 |-> 37, TrwRh32 |-> 38,
     MotorolaRce |-> 39, Arm |-> 40, DigitalAlpha |-> 41, SuperH |-> 42, SparcV9 |-> 43,
     SiemensTriCore |-> 44, ArgonautRiscCore |-> 45, HitachiH8_300 |-> 46,
     HitachiH8_300H |-> 47, HitachiH8S |-> 48, HitachiH8500 |-> 49, Ia64 |-> 50,
     StanfordMipsX |-> 51, MotorolaColdFire |-> 52, MotorolaM68hc12 |-> 53,
     FujitsuMma |-> 54, SiemensPcp |-> 55, SonyNCpu |-> 56, DensoNdr1 |-> 57,
     MotorolaStarCore |-> 58, ToyotaMe16 |-> 59, StmicroElectronicsSt100 |-> 60,
     AdvancedLogicCorpTinyJ |-> 61, AmdX86_64 |-> 62, SonyDsp |-> 63,
     DigitalEquipmentCorpPdp10 |-> 64, DigitalEquipmentCorpPdp11 |-> 65,
     SiemensFx66 |-> 66, StmicroElectronicsSt9 |-> 67, StmicroElectronicsSt7 |-> 68,
     MotorolaMc68hc16 |-> 69, MotorolaMc68hc11 |-> 70, MotorolaMc68hc08 |-> 71,
     MotorolaMc68hc05 |-> 72, SiliconGraphicsSvx |-> 73, StmicroElectronicsSt19 |-> 74,
     DigitalVax |-> 75, AxisCommunications32bit |-> 76, InfineonTechnologies32bit |-> 77,
     Element14_64bitDSP |-> 78, LsiLogic16bitDsp |-> 79, Tms320c6000Family |-> 140,
     McstElbrusE2k |-> 175, Arm64bit |-> 183, ZilogZ80 |-> 220, RiscV |-> 243,
     BerkeleyPacketFilter |-> 247, Wdc65c816 |-> 257, LoongArch |-> 258]

segment_type_code ==
    [PtNull |-> 0, PtLoad |-> 1, PtDynamic |-> 2, PtInterp |-> 3, PtNote |-> 4,
     PtShlib |-> 5, PtPhdr |-> 6, PtTls |-> 7, PtLoos |-> \h60000000,
     PtHios |-> \h6FFFFFFF, PtLoproc |-> \h70000000, PtHiproc |-> \h7FFFFFFF]

segment_flags_code == [PfX |-> 1, PfW |-> 2, PfR |-> 4]

\* Code 0 is ShtNull, which is also the variant of every code outside the table.
section_type_code ==
    [ShtProgbits |-> \h1, ShtSymtab |-> \h2, ShtStrtab |-> \h3, ShtRela |-> \h4,
     ShtHash |-> \h5, ShtDynamic |-> \h6, ShtNote |-> \h7, ShtNobits |-> \h8,
     ShtRel |-> \h9, ShtShlib |-> \h0A, ShtDynsym |-> \h0B, ShtInitArray |-> \h0E,
     ShtFiniArray |-> \h0F, ShtPreinitArray |-> \h10, ShtGroup |-> \h11,
     ShtSymtabShndx |-> \h12, ShtNum |-> \h13, ShtLoos |-> \h60000000]

section_flags_code ==
    [ShfWrite |-> <<\h01, 0, 0, 0>>, ShfAlloc |-> <<\h02, 0, 0, 0>>,
     ShfExecinstr |-> <<\h04, 0, 0, 0>>, ShfMerge |-> <<\h10, 0, 0, 0>>,
     ShfStrings |-> <<\h20, 0, 0, 0>>, ShfInfoLink |-> <<\h40, 0, 0, 0>>,
     ShfLinkOrder |-> <<\h80, 0, 0, 0>>, ShfOsNonconforming |-> <<0, \h01, 0, 0>>,
     ShfGroup |-> <<0, \h02, 0, 0>>, ShfTls |-> <<0, \h04, 0, 0>>,
     ShfMaskos |-> <<0, 0, \hF0, \h0F>>, ShfMaskproc |-> <<0, 0, 0, \hF0>>,
     ShfOrdered |-> <<0, 0, 0, \h04>>, ShfExclude |-> <<0, 0, 0, \h08>>]

\* The bytes of the header value h.
EncodeHeader(h) ==
    RawHeaderBytes(
        [magic |-> h.magic_number,
         class_byte |-> IF h.platform_type = "Bit32" THEN 1 ELSE 2,
         data_byte |-> IF h.endianness = "Little" THEN 1 ELSE 2,
         version |-> h.elf_header_version,
         abi |-> abi_code[h.target_system_abi],
         abi_version |-> h.target_abi_version,
         pad |-> Zeros(7),
         type |-> object_type_code[h.object_file_type],
         machine |-> machine_code[h.instruction_set],
         elf_version |-> h.elf_version,
         entry |-> h.entry_point,
         phoff |-> h.program_header_offset,
         shoff |-> h.section_header_offset,
         flags |-> h.flags,
         ehsize |-> h.header_size,
         phentsize |-> h.program_header_entry_size,
         phnum |-> h.program_header_entry_count,
         shentsize |-> h.section_header_entry_size,
         shnum |-> h.section_header_entry_count,
         shstrndx |-> h.section_header_sections_table_index])

RECURSIVE Flatten(_)
Flatten(seqs) == IF seqs = <<>> THEN <<>> ELSE Head(seqs) \o Flatten(Tail(seqs))

\* A program header entry written from raw values e, in the layout of its class.
EncodeProgramEntry(platform, order, e) ==
    LET w == IF platform = "Bit32" THEN 4 ELSE 8
        word(d) == put_digits(order, SubSeq(d, 1, w))
        words == word(e.offset) \o word(e.vaddr) \o word(e.paddr)
                 \o word(e.filesz) \o word(e.memsz)
    IN  IF platform = "Bit64"
        THEN put_digits(order, e.type) \o put_digits(order, e.flags) \o words
             \o word(e.align)
        ELSE put_digits(order, e.type) \o words \o put_digits(order, e.flags)
             \o word(e.align)

\* A section header entry written from raw values e.
EncodeSectionEntry(platform, order, e) ==
    LET w == IF platform = "Bit32" THEN 4 ELSE 8
        word(d) == put_digits(order, SubSeq(d, 1, w))
    IN  put_digits(order, e.name_offset) \o put_digits(order, e.type)
        \o word(e.flags) \o word(e.addr) \o word(e.offset) \o word(e.size)
        \o put_digits(order, e.link) \o put_digits(order, e.info)
        \o word(e.addralign) \o word(e.entsize)

\* The bounds of the input files.
MaxPhnum == 2

MaxShnum == 2

MaxTypeCode == 6

MaxMachineCode == 262

\* The k-th program header entry of the sample images: a loadable segment,
\* then segment types and flags outside the named codes.
SampleTypes == <<u32_lit(1), <<\h99, \h99, \h99, \h99>>, u32_lit(\h60000000), u32_lit(6)>>

SampleFlags == <<u32_lit(4), u32_lit(6), u32_lit(1), u32_lit(5)>>

Pick(list, k) == list[((k - 1) % Len(list)) + 1]

SampleProgramEntry(k) ==
    [type |-> Pick(SampleTypes, k),
     flags |-> Pick(SampleFlags, k),
     offset |-> usize_lit(k * 4096),
     vaddr |-> <<k, \h10, \h40, 0, 0, 0, 0, 0>>,
     paddr |-> <<k, \h10, \h40, 0, 0, 0, 0, 0>>,
     filesz |-> usize_lit(k * 16),
     memsz |-> usize_lit(k * 32),
     align |-> usize_lit(4096)]

\* ".text\0.data\0"
SampleStrTab == <<46, 116, 101, 120, 116, 0, 46, 100, 97, 116, 97, 0>>

\* The k-th section header entry of the sample images; the last one (k = n)
\* is the string table, at stroff.
SampleSectionEntry(k, n, stroff) ==
    [name_offset |-> u32_lit(IF k <= 2 THEN (k - 1) * 6 ELSE 0),
     type |-> IF k = n THEN u32_lit(3) ELSE u32_lit(1),
     flags |-> IF k = n THEN usize_lit(0) ELSE usize_lit(Pick(<<2, 6, 4>>, k)),
     addr |-> usize_lit(0),
     offset |-> IF k = n THEN usize_lit(stroff) ELSE usize_lit(0),
     size |-> IF k = n THEN usize_lit(Len(SampleStrTab)) ELSE usize_lit(0),
     link |-> u32_lit(0),
     info |-> u32_lit(0),
     addralign |-> usize_lit(1),
     entsize |-> usize_lit(0)]

HeaderLen(cb) == IF cb = 2 THEN 64 ELSE 52

\* The raw header of a sample image of class byte cb and data byte db with
\* pn program and sn section entries laid out after the header.
SampleRaw(cb, db, pn, sn) ==
    LET platform == IF cb = 2 THEN "Bit64" ELSE "Bit32" IN
    [magic |-> val_magic, class_byte |-> cb, data_byte |-> db, version |-> 1,
     abi |-> 0, abi_version |-> 0, pad |-> Zeros(7),
     type |-> 2, machine |-> \h3E,
     elf_version |-> u32_lit(1),
     entry |-> usize_lit(\h401000),
     phoff |-> usize_lit(HeaderLen(cb)),
     shoff |-> usize_lit(HeaderLen(cb) + pn * program_entry_len(platform)),
     flags |-> u32_lit(0),
     ehsize |-> HeaderLen(cb),
     phentsize |-> program_entry_len(platform), phnum |-> pn,
     shentsize |-> section_entry_len(platform), shnum |-> sn,
     shstrndx |-> IF sn = 0 THEN 0 ELSE sn - 1]

\* A whole sample image: header, program table, section table, string table.
SampleImage(cb, db, pn, sn) ==
    LET platform == IF cb = 2 THEN "Bit64" ELSE "Bit32"
        order == IF db = 2 THEN "Big" ELSE "Little"
        raw == SampleRaw(cb, db, pn, sn)
        stroff == usize_val(raw.shoff) + sn * section_entry_len(platform)
    IN  RawHeaderBytes(raw)
        \o Flatten([k \in 1 .. pn |->
                      EncodeProgramEntry(platform, order, SampleProgramEntry(k))])
        \o Flatten([k \in 1 .. sn |->
                      EncodeSectionEntry(platform, order, SampleSectionEntry(k, sn, stroff))])
        \o SampleStrTab

ElfParts == {"Header", "ProgramHeader", "Data", "SectionHeader", "All"}

ClassBytes == {1, 2}

DataBytes == {1, 2}

\* Well-formed images, every part asked for.
WellFormedInputs ==
    {<<SampleImage(cb, db, pn, sn), part, DefaultElfHeader>> :
        cb \in ClassBytes, db \in DataBytes, pn \in 0 .. MaxPhnum, sn \in 0 .. MaxShnum,
        part \in ElfParts}

\* The largest sample images cut at every length, the empty file included,
\* decoded whole and for the program header table alone.
TruncatedInputs ==
    UNION {LET img == SampleImage(cb, db, MaxPhnum, MaxShnum) IN
           {<<SubSeq(img, 1, n), part, DefaultElfHeader>> :
               n \in 0 .. Len(img) - 1, part \in {"All", "ProgramHeader"}} :
           cb \in ClassBytes, db \in DataBytes}

SetByte(img, pos, v) == [img EXCEPT ![pos + 1] = v]

\* One identity byte (offsets 0 .. 7) set to every value, one padding byte to a few.
ByteInputs ==
    UNION {LET img == SampleImage(b[1], b[2], 1, 1) IN
           {<<SetByte(img, pos, v), "All", DefaultElfHeader>> :
               pos \in 0 .. 7, v \in Byte}
           \cup {<<SetByte(img, pos, v), "All", DefaultElfHeader>> :
               pos \in 8 .. 15, v \in {1, 255}} :
           b \in {<<2, 1>>, <<1, 2>>}}

\* Identity bytes wrong in more than one place.
MagicInputs ==
    {<<magic \o SubSeq(SampleImage(2, 1, 1, 1), 5, 64), part, DefaultElfHeader>> :
        magic \in {<<0, 0, 0, 0>>, <<69, 76, 70, 127>>, <<127, 101, 108, 102>>,
                   <<70, 76, 69, 127>>},
        part \in {"Header", "All"}}

\* Object-type and instruction-set codes: the low codes, the codes around the
\* reserved ranges, and codes that are named only when read in the other order.
TypeCodes ==
    (0 .. MaxTypeCode)
    \cup {\h0100, \h0200, \hFDFF, \hFE00, \hFE01, \hFE80, \hFEFE, \hFEFF,
          \hFF00, \hFF01, \hFF80, \hFFFE, \hFFFF}

MachineCodes == (0 .. MaxMachineCode) \cup {\h0B00, \h3E00, \h8000, \hFFFF}

CodeInputs ==
    {<<RawHeaderBytes([SampleRaw(cb, db, 0, 0) EXCEPT !.type = t]), "All",
       DefaultElfHeader>> : cb \in ClassBytes, db \in DataBytes, t \in TypeCodes}
    \cup
    {<<RawHeaderBytes([SampleRaw(cb, db, 0, 0) EXCEPT !.machine = m]), "All",
       DefaultElfHeader>> : cb \in ClassBytes, db \in DataBytes, m \in MachineCodes}

\* Header values: every named ABI, object type and instruction set, each
\* with a typical and with an all-distinct-bytes choice of the numeric fields.
EnumTriples ==
    {<<a, "EtExec", "AmdX86_64">> : a \in DOMAIN abi_code}
    \cup {<<"SystemV", t, "AmdX86_64">> : t \in DOMAIN object_type_code}
    \cup {<<"Linux", "EtDyn", m>> : m \in DOMAIN machine_code}
    \cup {<<"SystemV", "EtHiproc", "Wdc65c816">>, <<"SystemV", "EtNone", "UnSpecified">>}

HeaderValue(platform, endian, tr, k) ==
    LET wide == platform = "Bit64"
        usz(d) == IF wide THEN d ELSE SubSeq(d, 1, 4) \o Zeros(4)
    IN  [magic_number |-> val_magic,
         platform_type |-> platform,
         endianness |-> endian,
         elf_header_version |-> k,
         target_system_abi |-> tr[1],
         target_abi_version |-> k - 1,
         object_file_type |-> tr[2],
         instruction_set |-> tr[3],
         elf_version |-> IF k = 1 THEN u32_lit(1) ELSE <<29, 30, 31, 32>>,
         entry_point |-> IF k = 1 THEN usize_lit(\h401000)
                         ELSE usz(<<1, 2, 3, 4, 5, 6, 7, 8>>),
         program_header_offset |-> IF k = 1 THEN usize_lit(IF wide THEN 64 ELSE 52)
                                   ELSE usz(<<9, 10, 11, 12, 13, 14, 15, 16>>),
         section_header_offset |-> IF k = 1 THEN usize_lit(4096)
                                   ELSE usz(<<17, 18, 19, 20, 21, 22, 23, \hF4>>),
         flags |-> IF k = 1 THEN u32_lit(0) ELSE <<25, 26, 27, \hF8>>,
         header_size |-> IF k = 1 THEN (IF wide THEN 64 ELSE 52) ELSE 33 + 34 * 256,
         program_header_entry_size |-> IF k = 1 THEN (IF wide THEN 56 ELSE 32)
                                       ELSE 35 + 36 * 256,
         program_header_entry_count |-> IF k = 1 THEN 2 ELSE 37 + 38 * 256,
         section_header_entry_size |-> IF k = 1 THEN (IF wide THEN 64 ELSE 40)
                                       ELSE 39 + 40 * 256,
         section_header_entry_count |-> IF k = 1 THEN 3 ELSE 41 + 42 * 256,
         section_header_sections_table_index |-> IF k = 1 THEN 2 ELSE 43 + 244 * 256]

HeaderValues ==
    {HeaderValue(platform, endian, tr, k) :
        platform \in {"Bit32", "Bit64"}, endian \in {"Little", "Big"},
        tr \in EnumTriples, k \in 1 .. 2}

RoundTripInputs == {<<EncodeHeader(h), "Header", h>> : h \in HeaderValues}

\* Segment-type, segment-flags, section-type and section-flags codes: the
\* low codes, the codes at, inside and around the reserved ranges and masks,
\* and codes with bytes above the low word.
MaxSegmentCode == 9

MaxSectionTypeCode == 21

SegmentTypeCodes ==
    {u32_lit(n) : n \in 0 .. MaxSegmentCode}
    \cup {u32_lit(n) : n \in {\h5FFFFFFF, \h60000000, \h60000001, \h6474E551,
                              \h6FFFFFFE, \h6FFFFFFF, \h70000000, \h70000001,
                              \h7FFFFFFE, \h7FFFFFFF, \h01000000, \h00000060}}
    \cup {<<0, 0, 0, \h80>>, <<\h99, \h99, \h99, \h99>>, <<\hFF, \hFF, \hFF, \hFF>>}

SegmentFlagCodes ==
    {u32_lit(n) : n \in 0 .. MaxSegmentCode}
    \cup {u32_lit(n) : n \in {\h10, \h100, \h01000000, \h04000000, \h0FF00000}}
    \cup {<<0, 0, 0, \hF0>>, <<\hFF, \hFF, \hFF, \hFF>>}

SectionTypeCodes ==
    {u32_lit(n) : n \in 0 .. MaxSectionTypeCode}
    \cup {u32_lit(n) : n \in {\h5FFFFFFF, \h60000000, \h60000001, \h6FFFFFF6,
                              \h6FFFFFFF, \h70000000, \h7FFFFFFF, \h01000000,
                              \h00000060}}
    \cup {<<0, 0, 0, \h80>>, <<\hFF, \hFF, \hFF, \hFF>>}

SectionFlagCodes ==
    {usize_lit(n) : n \in 0 .. MaxSegmentCode}
    \cup {usize_lit(n) : n \in {\h10, \h20, \h30, \h40, \h80, \h100, \h200, \h400,
                                \h800, \h1000, \h100000, \h0FF00000, \h0FF00001,
                                \h4000000, \h8000000, \hC000000, \h10000000,
                                \h01000000}}
    \cup {<<0, 0, 0, \hF0, 0, 0, 0, 0>>, <<0, 0, 0, \h80, 0, 0, 0, 0>>,
          <<0, 0, 0, \hFF, 0, 0, 0, 0>>,
          <<1, 0, 0, 0, 1, 0, 0, 0>>, <<0, 0, 0, 0, 1, 0, 0, 0>>,
          <<0, 0, 0, \hF0, 0, 0, 0, \hF0>>}

\* A program header entry and a section header entry no two bytes of which
\* are equal.
LayoutProgramEntry ==
    [type |-> <<\hA1, \hA2, \hA3, \hA4>>,
     flags |-> <<\hB1, \hB2, \hB3, \hB4>>,
     offset |-> <<\h11, \h12, \h13, \h14, \h15, \h16, \h17, \h18>>,
     vaddr |-> <<\h21, \h22, \h23, \h24, \h25, \h26, \h27, \h28>>,
     paddr |-> <<\h31, \h32, \h33, \h34, \h35, \h36, \h37, \h38>>,
     filesz |-> <<\h41, \h42, \h43, \h44, \h45, \h46, \h47, \h48>>,
     memsz |-> <<\h51, \h52, \h53, \h54, \h55, \h56, \h57, \h58>>,
     align |-> <<\h61, \h62, \h63, \h64, \h65, \h66, \h67, \h68>>]

LayoutSectionEntry ==
    [name_offset |-> <<\hA1, \hA2, \hA3, \hA4>>,
     type |-> <<\hB1, \hB2, \hB3, \hB4>>,
     flags |-> <<\h11, \h12, \h13, \h14, \h15, \h16, \h17, \h18>>,
     addr |-> <<\h21, \h22, \h23, \h24, \h25, \h26, \h27, \h28>>,
     offset |-> <<\h31, \h32, \h33, \h34, \h35, \h36, \h37, \h38>>,
     size |-> <<\h41, \h42, \h43, \h44, \h45, \h46, \h47, \h48>>,
     link |-> <<\hC1, \hC2, \hC3, \hC4>>,
     info |-> <<\hD1, \hD2, \hD3, \hD4>>,
     addralign |-> <<\h51, \h52, \h53, \h54, \h55, \h56, \h57, \h58>>,
     entsize |-> <<\h61, \h62, \h63, \h64, \h65, \h66, \h67, \h68>>]

\* An image of two program header entries: e, then the second sample entry
\* (segment type 0x99999999, flags 0x6).
ProgramImage(cb, db, e) ==
    LET platform == IF cb = 2 THEN "Bit64" ELSE "Bit32"
        order == IF db = 2 THEN "Big" ELSE "Little"
    IN  RawHeaderBytes(SampleRaw(cb, db, 2, 0))
        \o EncodeProgramEntry(platform, order, e)
        \o EncodeProgramEntry(platform, order, SampleProgramEntry(2))

\* An image of two section header entries: e, then the string table's.
SectionImage(cb, db, e) ==
    LET platform == IF cb = 2 THEN "Bit64" ELSE "Bit32"
        order == IF db = 2 THEN "Big" ELSE "Little"
        stroff == HeaderLen(cb) + 2 * section_entry_len(platform)
    IN  RawHeaderBytes(SampleRaw(cb, db, 0, 2))
        \o EncodeSectionEntry(platform, order, e)
        \o EncodeSectionEntry(platform, order, SampleSectionEntry(2, 2, stroff))
        \o SampleStrTab

SegmentInputs ==
    {<<ProgramImage(cb, db, [SampleProgramEntry(1) EXCEPT !.type = t]), "ProgramHeader",
       DefaultElfHeader>> : cb \in ClassBytes, db \in DataBytes, t \in SegmentTypeCodes}
    \cup
    {<<ProgramImage(cb, db, [SampleProgramEntry(1) EXCEPT !.flags = f]), "ProgramHeader",
       DefaultElfHeader>> : cb \in ClassBytes, db \in DataBytes, f \in SegmentFlagCodes}
    \cup
    {<<ProgramImage(cb, db, LayoutProgramEntry), "ProgramHeader", DefaultElfHeader>> :
        cb \in ClassBytes, db \in DataBytes}

SectionInputs ==
    {<<SectionImage(cb, db, [SampleSectionEntry(1, 2, 0) EXCEPT !.type = t]),
       "SectionHeader", DefaultElfHeader>> :
        cb \in ClassBytes, db \in DataBytes, t \in SectionTypeCodes}
    \cup
    {<<SectionImage(cb, db, [SampleSectionEntry(1, 2, 0) EXCEPT !.flags = f]),
       "SectionHeader", DefaultElfHeader>> :
        cb \in ClassBytes, db \in DataBytes, f \in SectionFlagCodes}
    \cup
    {<<SectionImage(cb, db, LayoutSectionEntry), "SectionHeader", DefaultElfHeader>> :
        cb \in ClassBytes, db \in DataBytes}

\* An image laid out freely: the header, the program header entries pes,
\* each followed by pad bytes, gap bytes, the section header entries ses, each
\* followed by pad bytes, and the name table.  The header declares the
\* entry sizes with the padding and ndx as the name table's index.
StrOff(cb, np, ns, gap, pad) ==
    LET platform == IF cb = 2 THEN "Bit64" ELSE "Bit32" IN
    HeaderLen(cb) + np * (program_entry_len(platform) + pad) + gap
    + ns * (section_entry_len(platform) + pad)

Image(cb, db, pes, ses, ndx, gap, pad) ==
    LET platform == IF cb = 2 THEN "Bit64" ELSE "Bit32"
        order == IF db = 2 THEN "Big" ELSE "Little"
        raw == [SampleRaw(cb, db, Len(pes), Len(ses)) EXCEPT
                   !.shoff = usize_lit(HeaderLen(cb)
                                + Len(pes) * (program_entry_len(platform) + pad) + gap),
                   !.phentsize = program_entry_len(platform) + pad,
                   !.shentsize = section_entry_len(platform) + pad,
                   !.shstrndx = ndx]
    IN  RawHeaderBytes(raw)
        \o Flatten([k \in 1 .. Len(pes) |->
                      EncodeProgramEntry(platform, order, pes[k]) \o Zeros(pad)])
        \o Zeros(gap)
        \o Flatten([k \in 1 .. Len(ses) |->
                      EncodeSectionEntry(platform, order, ses[k]) \o Zeros(pad)])
        \o SampleStrTab

\* The name table's entry, the n-th and last of its table, the table's
\* bytes at stroff and size bytes long; a section entry with name offset off.
StrTabEntry(n, stroff, size) ==
    [SampleSectionEntry(n, n, stroff) EXCEPT !.size = usize_lit(size)]

NamedEntry(off) == [SampleSectionEntry(1, 2, 0) EXCEPT !.name_offset = u32_lit(off)]

\* The gaps and paddings of the images laid out freely.
MaxGap == 8

MaxPad == 8

\* Two section entries of unrecognized type and flags, then the name table.
PairInputs ==
    {<<Image(cb, db, <<>>,
             <<[SampleSectionEntry(1, 3, 0) EXCEPT !.type = u32_lit(\h0C),
                                                   !.flags = usize_lit(3)],
               [SampleSectionEntry(2, 3, 0) EXCEPT !.type = u32_lit(\h15),
                                                   !.flags = usize_lit(6)],
               StrTabEntry(3, StrOff(cb, 0, 3, 0, 0), Len(SampleStrTab))>>,
             2, 0, 0),
       "SectionHeader", DefaultElfHeader>> : cb \in ClassBytes, db \in DataBytes}

\* Name offsets in the other order than the names of the table, a name
\* table with fewer names than entries, and name table indexes and sizes up
\* to and beyond the table and the image.
NameInputs ==
    {<<Image(cb, db, <<>>,
             <<NamedEntry(off),
               [StrTabEntry(2, StrOff(cb, 0, 2, 0, 0), size) EXCEPT
                   !.name_offset = u32_lit(6 - off)]>>,
             ndx, 0, 0),
       "SectionHeader", DefaultElfHeader>> :
        cb \in ClassBytes, db \in DataBytes, off \in {0, 6},
        size \in {0, 5, Len(SampleStrTab), Len(SampleStrTab) + 1},
        ndx \in {0, 1, 2, 3}}

\* The section table away from the end of the program table.
GapInputs ==
    {<<Image(cb, db, <<SampleProgramEntry(1), SampleProgramEntry(2)>>,
             <<NamedEntry(0), StrTabEntry(2, StrOff(cb, 2, 2, gap, 0), Len(SampleStrTab))>>,
             1, gap, 0),
       part, DefaultElfHeader>> :
        cb \in ClassBytes, db \in DataBytes, gap \in {MaxGap},
        part \in {"All", "ProgramHeader", "SectionHeader"}}

\* Table entries larger than the decoder's structures, as the header declares.
StrideInputs ==
    {<<Image(cb, db, <<SampleProgramEntry(1), SampleProgramEntry(2)>>,
             <<NamedEntry(0), StrTabEntry(2, StrOff(cb, 2, 2, 0, pad), Len(SampleStrTab))>>,
             1, 0, pad),
       part, DefaultElfHeader>> :
        cb \in ClassBytes, db \in DataBytes, pad \in {MaxPad},
        part \in {"ProgramHeader", "SectionHeader"}}

Inputs ==
    WellFormedInputs \cup TruncatedInputs \cup ByteInputs \cup MagicInputs
    \cup CodeInputs
    \cup RoundTripInputs
    \cup SegmentInputs \cup SectionInputs
    \cup PairInputs \cup NameInputs \cup GapInputs \cup StrideInputs

(***************************************************************************)
(* The specification                                                       *)
(***************************************************************************)
Init ==
    /\ \E in \in Inputs :
          /\ file = in[1]
          /\ to_process = in[2]
          /\ given = in[3]
    /\ args_1 = <<>>
    /\ main_i = 0
    /\ shown = <<>>
    /\ filepath = "a.elf"
    /\ content = <<>>
    /\ pointer = 0
    /\ pc = "read_file"
    /\ locals = NoLocals
    /\ elf_binary = DefaultElfBinary
    /\ inner = <<>>
    /\ left = 0
    /\ ret = Running

Next ==
    \/ read_file
    \/ parse_magic_number
    \/ parse_platform_type
    \/ parse_endianness
    \/ parse_elf_header_version
    \/ parse_target_system_abi
    \/ parse_target_abi_version
    \/ parse_reserved_padding
    \/ parse_object_file_type
    \/ parse_instruction_set
    \/ parse_elf_version
    \/ parse_entry_point
    \/ parse_program_header_offset
    \/ parse_section_header_offset
    \/ parse_flags
    \/ parse_header_size
    \/ parse_program_header_entry_size
    \/ parse_program_header_entry_count
    \/ parse_section_header_entry_size
    \/ parse_section_header_entry_count
    \/ parse_section_header_sections_table_index
    \/ parse_header
    \/ match_to_process
    \/ parse_program_header_entry
    \/ parse_program_header
    \/ parse_section_header_entry
    \/ parse_section_header

Spec == Init /\ [][Next]_vars

(***************************************************************************)
(* main, and the command line.                                             *)
(***************************************************************************)
\* args.skip(n)
Skip(a, n) == SubSeq(a, n + 1, Len(a))

\* The part-selection flags of Cli::parse.
part_of_flag ==
    [flag \in {"--header", "-e", "--program", "-p", "--data", "-d",
               "--section", "-s", "--all", "-a"} |->
        CASE flag \in {"--header", "-e"} -> "Header"
          [] flag \in {"--program", "-p"} -> "ProgramHeader"
          [] flag \in {"--data", "-d"} -> "Data"
          [] flag \in {"--section", "-s"} -> "SectionHeader"
          [] flag \in {"--all", "-a"} -> "All"]

\* The `while let Some(next) = args.next()` loop of Cli::parse from the k-th
\* argument on, cli.filepath being path (Cli::default() has the empty path and
\* the part Header).  "Exit" is std::process::exit(0) after the help text.
RECURSIVE Cli_parse_from(_, _, _)
Cli_parse_from(a, k, path) ==
    IF k > Len(a)
    THEN IF path = ""
         THEN [kind |-> "Err", msg |-> "Missing args!", filepath |-> path,
               to_process |-> "Header"]
         ELSE [kind |-> "Ok", msg |-> "", filepath |-> path, to_process |-> "Header"]
    ELSE IF a[k] \in {"--filepath", "-f"}
    THEN IF k + 1 > Len(a)
         THEN [kind |-> "Err", msg |-> "Missing Filepath", filepath |-> path,
               to_process |-> "Header"]
         ELSE Cli_parse_from(a, k + 2, a[k + 1])
    ELSE IF a[k] \in {"--help", "-h"}
    THEN [kind |-> "Exit", msg |-> "", filepath |-> path, to_process |-> "Header"]
    ELSE IF a[k] \in DOMAIN part_of_flag
    THEN [kind |-> "Ok", msg |-> "", filepath |-> path, to_process |-> part_of_flag[a[k]]]
    ELSE Cli_parse_from(a, k + 1, path)

Cli_parse(a) == Cli_parse_from(a, 1, "")

\* print_data slices elf_binary.content[section_offset..section_offset +
\* section_size] of every ShtProgbits section, unchecked.
print_data_panics ==
    \E n \in DOMAIN elf_binary.section_header :
       LET section == elf_binary.section_header[n] IN
       /\ section.section_header_type = "ShtProgbits"
       /\ usize_val(section.section_offset) + usize_val(section.section_size)
             > Len(elf_binary.content)

\* What the `match arg.to_process` of main displays.
displayed(part) ==
    CASE part = "Header" -> <<<<elf_binary.header>>>>
      [] part = "ProgramHeader" -> <<elf_binary.program_header>>
      [] part = "SectionHeader" -> <<elf_binary.section_header>>
      [] part = "Data" ->
           <<[n \in DOMAIN elf_binary.section_header |->
                 IF elf_binary.section_header[n].section_header_type = "ShtProgbits"
                 THEN elf_binary.section_header[n].section_name ELSE <<>>]>>
      [] part = "All" -> <<<<elf_binary.header>>, elf_binary.program_header,
                           elf_binary.section_header>>

\* The file system: the file at the path of the command line.
FileAt(path) ==
    IF path \in ExistingPaths
    THEN Image(1, 1, <<SampleProgramEntry(1)>>,
               <<NamedEntry(0), StrTabEntry(2, StrOff(1, 1, 2, 0, 0), Len(SampleStrTab))>>,
               1, 0, 0)
    ELSE <<>>

\* The head of main's loop, `for i in 3..args_1.len()`: Ok(()) after the
\* last iteration, else Cli::parse over all the arguments and the call of
\* parse_file.
main_loop ==
    /\ pc = "main"
    /\ IF main_i >= Len(args_1)
       THEN /\ ret' = [kind |-> "Ok", msg |-> ""]
            /\ pc' = "exit"
            /\ UNCHANGED <<filepath, file, to_process, content, pointer, locals,
                           elf_binary, inner, left>>
       ELSE LET args == Cli_parse(Skip(args_1, 1)) IN
            IF args.kind # "Ok"
            THEN /\ ret' = [kind |-> args.kind, msg |-> args.msg]
                 /\ pc' = "exit"
                 /\ UNCHANGED <<filepath, file, to_process, content, pointer, locals,
                                elf_binary, inner, left>>
            ELSE /\ filepath' = args.filepath
                 /\ to_process' = args.to_process
                 /\ file' = FileAt(args.filepath)
                 /\ content' = <<>>
                 /\ pointer' = 0
                 /\ locals' = NoLocals
                 /\ elf_binary' = DefaultElfBinary
                 /\ inner' = <<>>
                 /\ left' = 0
                 /\ ret' = Running
                 /\ pc' = "read_file"
    /\ UNCHANGED <<args_1, main_i, shown, given>>

\* The rest of the loop's body, once parse_file has returned: `?` on its
\* result, Cli::parse over the arguments from the i-th on, and the display
\* of the part that names.
main_display ==
    /\ pc = "done"
    /\ IF ret.kind # "Ok"
       THEN pc' = "exit" /\ UNCHANGED <<main_i, shown, ret>>
       ELSE LET arg == Cli_parse(Skip(args_1, main_i)) IN
            IF arg.kind # "Ok"
            THEN /\ ret' = [kind |-> arg.kind, msg |-> arg.msg]
                 /\ pc' = "exit"
                 /\ UNCHANGED <<main_i, shown>>
            ELSE IF arg.to_process = "Data" /\ print_data_panics
            THEN /\ ret' = [kind |-> "Panic", msg |-> "range end index out of range"]
                 /\ pc' = "exit"
                 /\ UNCHANGED <<main_i, shown>>
            ELSE /\ shown' = Append(shown, [part |-> arg.to_process,
                                            decoded |-> to_process,
                                            out |-> displayed(arg.to_process)])
                 /\ main_i' = main_i + 1
                 /\ pc' = "main"
                 /\ ret' = Running
    /\ UNCHANGED <<args_1, filepath, file, given, to_process, content, pointer, locals,
                   elf_binary, inner, left>>

\* The command lines: the program's name and up to MaxArgs arguments.
MaxArgs == 4

Tokens == {"-f", "a.elf", "-e", "-p", "-d", "-s", "-a", "-h"}

CommandLines ==
    UNION {{<<"elfp">> \o t : t \in [1 .. n -> Tokens]} : n \in 0 .. MaxArgs}

InitMain ==
    /\ args_1 \in CommandLines
    /\ main_i = 3
    /\ shown = <<>>
    /\ filepath = ""
    /\ file = <<>>
    /\ given = DefaultElfHeader
    /\ to_process = "Header"
    /\ content = <<>>
    /\ pointer = 0
    /\ pc = "main"
    /\ locals = NoLocals
    /\ elf_binary = DefaultElfBinary
    /\ inner = <<>>
    /\ left = 0
    /\ ret = Running

NextMain ==
    \/ main_loop
    \/ main_display
    \/ read_file
    \/ parse_magic_number
    \/ parse_platform_type
    \/ parse_endianness
    \/ parse_elf_header_version
    \/ parse_target_system_abi
    \/ parse_target_abi_version
    \/ parse_reserved_padding
    \/ parse_object_file_type
    \/ parse_instruction_set
    \/ parse_elf_version
    \/ parse_entry_point
    \/ parse_program_header_offset
    \/ parse_section_header_offset
    \/ parse_flags
    \/ parse_header_size
    \/ parse_program_header_entry_size
    \/ parse_program_header_entry_count
    \/ parse_section_header_entry_size
    \/ parse_section_header_entry_count
    \/ parse_section_header_sections_table_index
    \/ parse_header
    \/ match_to_process
    \/ parse_program_header_entry
    \/ parse_program_header
    \/ parse_section_header_entry
    \/ parse_section_header

SpecMain == InitMain /\ [][NextMain]_vars

TypeOK ==
    /\ pc \in {"read_file", "parse_magic_number", "parse_platform_type",
               "parse_endianness", "parse_elf_header_version",
               "parse_target_system_abi", "parse_target_abi_version",
               "parse_reserved_padding", "parse_object_file_type",
               "parse_instruction_set", "parse_elf_version", "parse_entry_point",
               "parse_program_header_offset", "parse_section_header_offset",
               "parse_flags", "parse_header_size", "parse_program_header_entry_size",
               "parse_program_header_entry_count", "parse_section_header_entry_size",
               "parse_section_header_entry_count",
               "parse_section_header_sections_table_index", "parse_header",
               "match_to_process", "parse_program_header_entry",
               "parse_section_header_entry", "done"}
    /\ ret.kind \in {"None", "Ok", "Err", "Panic"}
    /\ (ret.kind = "None") = (pc # "done")
    /\ to_process \in ElfParts
    /\ \A i \in 1 .. Len(file) : file[i] \in Byte

(***************************************************************************)
(* What the bytes of the file say, read off the file itself: the           *)
(* vocabulary of the properties below.  file[n + 1] is the byte at image   *)
(* offset n.                                                               *)
(***************************************************************************)
ElfMagic == <<\h7F, \h45, \h4C, \h46>>

HasBytes(n) == Len(file) >= n

MagicOk == HasBytes(4) /\ SubSeq(file, 1, 4) = ElfMagic

ClassOk == MagicOk /\ HasBytes(5) /\ file[5] \in {1, 2}

OrderOk == ClassOk /\ HasBytes(6) /\ file[6] \in {1, 2}

RecognizedAbiCodes == (0 .. 4) \cup (6 .. 18)

AbiOk == OrderOk /\ HasBytes(8) /\ file[8] \in RecognizedAbiCodes

\* The 2-byte integer at image offset off, in the order the data-order byte declares.
FileU16(off) ==
    IF file[6] = 1 THEN file[off + 1] + 256 * file[off + 2]
                   ELSE 256 * file[off + 1] + file[off + 2]

\* Digit i (weight 256^(i-1)) of the W-byte integer at image offset off.
FileDigit(off, W, i) == IF file[6] = 1 THEN file[off + i] ELSE file[off + W + 1 - i]

\* d is the W-byte integer at image offset off, zero-extended.
IsFileInt(d, off, W) ==
    \A i \in 1 .. Len(d) : d[i] = IF i <= W THEN FileDigit(off, W, i) ELSE 0

TypeCodeInFile == FileU16(16)

MachineCodeInFile == FileU16(18)

ReservedMachineCodes == (\h0B .. \h0E) \cup (\h18 .. \h23)

NamedMachineCodes ==
    (\h00 .. \h0A) \cup {\h0F} \cup (\h13 .. \h17) \cup (\h24 .. \h4F)
    \cup {\h8C, \hAF, \hB7, \hDC, \hF3, \hF7, \h101, \h102}

\* parse_header has bound the local `field`.
Decoded(field) == field \in DOMAIN locals

\* parse_header has returned Ok(header) to parse_file.
HeaderReturned == elf_binary.header # DefaultElfHeader

\* parse_file returned Err(msg): no header, no table, no image in its result.
Rejected(msg) ==
    /\ pc = "done"
    /\ ret = [kind |-> "Err", msg |-> msg]
    /\ elf_binary = DefaultElfBinary

\* A fatal condition in the header's bytes: the first field, in decode order,
\* whose value no reading of the format accepts.
HeaderFatal ==
    \/ HasBytes(4) /\ ~MagicOk
    \/ MagicOk /\ HasBytes(5) /\ file[5] \notin {1, 2}
    \/ ClassOk /\ HasBytes(6) /\ file[6] \notin {1, 2}
    \/ OrderOk /\ HasBytes(8) /\ file[8] \notin RecognizedAbiCodes
    \/ AbiOk /\ HasBytes(18) /\ TypeCodeInFile \notin (0 .. 4) \cup (\hFE00 .. \hFFFF)
    \/ /\ AbiOk /\ HasBytes(20)
       /\ TypeCodeInFile \in (0 .. 4) \cup {\hFE00, \hFEFF, \hFF00, \hFFFF}
       /\ MachineCodeInFile \notin NamedMachineCodes \cup ReservedMachineCodes

(***************************************************************************)
(* The properties                                                          *)
(***************************************************************************)

\* C1: a read past the end of the image is a returned error, never a panic:
\* no decode ends in a panic, and a file too short to hold a header (fewer
\* than 52 bytes) ends in Err.
C1_OutOfBoundsIsAnError ==
    /\ ret.kind # "Panic"
    /\ (pc = "done" /\ ~HasBytes(52)) => ret.kind = "Err"

\* C2: the header decodes only if the first 4 bytes are 7F 45 4C 46; with
\* any other 4 bytes parse_file returns the magic error and no header.
C2_MagicIsRequired ==
    /\ (pc = "done" /\ HasBytes(4) /\ SubSeq(file, 1, 4) # ElfMagic)
          => Rejected("Unsupported file type")
    /\ (Decoded("magic_number") \/ HeaderReturned) => MagicOk
    /\ ret.msg = "Unsupported file type" => HasBytes(4) /\ ~MagicOk

C2_Witness ==
    /\ HasBytes(4) /\ SubSeq(file, 1, 4) = <<0, 0, 0, 0>>
    /\ Rejected("Unsupported file type")

\* C3: header decoding is all-or-nothing: a fatal value in any header field
\* makes parse_file return an error; an error leaves no header, no image
\* and no table entry behind; and no table is decoded before the whole
\* header was.
C3_HeaderAllOrNothing ==
    /\ (pc = "done" /\ HeaderFatal) => ret.kind = "Err"
    /\ ret.kind = "Err" => elf_binary = DefaultElfBinary /\ inner = <<>> /\ left = 0
    /\ pc \in {"parse_program_header_entry", "parse_section_header_entry"}
          => HeaderReturned /\ ~HeaderFatal

C3_Witness ==
    /\ pc = "done" /\ to_process = "All"
    /\ AbiOk /\ HeaderFatal
    /\ ret.kind = "Err" /\ elf_binary = DefaultElfBinary /\ inner = <<>>

\* C4: the class byte (offset 4) decodes 1 to 32-bit and 2 to 64-bit; any
\* other value is the fatal class error.
C4_ClassByte ==
    /\ Decoded("platform_type") =>
          /\ MagicOk /\ HasBytes(5)
          /\ \/ file[5] = 1 /\ locals.platform_type = "Bit32"
             \/ file[5] = 2 /\ locals.platform_type = "Bit64"
    /\ (pc = "done" /\ MagicOk /\ HasBytes(5)) =>
          IF file[5] \in {1, 2} THEN Decoded("platform_type")
          ELSE Rejected("Invalid platform type")
    /\ HeaderReturned => elf_binary.header.platform_type = locals.platform_type

C4_Witness ==
    /\ MagicOk /\ HasBytes(5) /\ file[5] = 3
    /\ Rejected("Invalid platform type")

\* C5: the data-order byte (offset 5) decodes 1 to little-endian and 2 to
\* big-endian; any other value is the fatal encoding error.
C5_DataOrderByte ==
    /\ Decoded("endianness") =>
          /\ ClassOk /\ HasBytes(6)
          /\ \/ file[6] = 1 /\ locals.endianness = "Little"
             \/ file[6] = 2 /\ locals.endianness = "Big"
    /\ (pc = "done" /\ ClassOk /\ HasBytes(6)) =>
          IF file[6] \in {1, 2} THEN Decoded("endianness")
          ELSE Rejected("Invalid endianness!")
    /\ HeaderReturned => elf_binary.header.endianness = locals.endianness

C5_Witness ==
    /\ ClassOk /\ HasBytes(6) /\ file[6] = 0
    /\ Rejected("Invalid endianness!")

\* C6: the OS/ABI byte (offset 7) decodes a recognized code to a named
\* variant that belongs to that code alone (the variant gives the code
\* back); any other code is the fatal ABI error.
C6_OsAbiByte ==
    /\ Decoded("target_system_abi") =>
          /\ OrderOk /\ HasBytes(8) /\ file[8] \in RecognizedAbiCodes
          /\ locals.target_system_abi \in DOMAIN abi_code
          /\ abi_code[locals.target_system_abi] = file[8]
    /\ (pc = "done" /\ OrderOk /\ HasBytes(8)) =>
          IF file[8] \in RecognizedAbiCodes THEN Decoded("target_system_abi")
          ELSE Rejected("Unsupported platform!")
    /\ HeaderReturned => elf_binary.header.target_system_abi = locals.target_system_abi

C6_Witness ==
    /\ OrderOk /\ HasBytes(8) /\ file[8] = 5
    /\ Rejected("Unsupported platform!")

\* C7: the object-type field decodes 0..4 to none/relocatable/executable/
\* shared/core, every code of 0xFE00..0xFEFF to an OS-specific variant, every
\* code of 0xFF00..0xFFFF to a processor-specific variant, and any other
\* code is fatal.
C7_ObjectTypeRanges ==
    /\ Decoded("object_file_type") =>
          /\ AbiOk /\ HasBytes(18)
          /\ CASE TypeCodeInFile \in 0 .. 4 ->
                    locals.object_file_type =
                       <<"EtNone", "EtRel", "EtExec", "EtDyn", "EtCore">>[TypeCodeInFile + 1]
               [] TypeCodeInFile \in \hFE00 .. \hFEFF ->
                    locals.object_file_type \in {"EtLoos", "EtHios"}
               [] TypeCodeInFile \in \hFF00 .. \hFFFF ->
                    locals.object_file_type \in {"EtLoproc", "EtHiproc"}
               [] OTHER -> FALSE
    /\ (pc = "done" /\ AbiOk /\ HasBytes(18)) =>
          IF TypeCodeInFile \in (0 .. 4) \cup (\hFE00 .. \hFFFF)
          THEN Decoded("object_file_type")
          ELSE Rejected("Unsupported Object File Type")

\* C8: the instruction-set field decodes every code of 0x0B..0x0E and of
\* 0x18..0x23 to Reserved, every other code of the table to a variant of its
\* own, and any code outside the table is the fatal instruction-set error.
C8_InstructionSet ==
    /\ Decoded("instruction_set") =>
          /\ Decoded("object_file_type") /\ HasBytes(20)
          /\ \/ /\ MachineCodeInFile \in ReservedMachineCodes
                /\ locals.instruction_set = "Reserved"
             \/ /\ MachineCodeInFile \in NamedMachineCodes
                /\ locals.instruction_set # "Reserved"
                /\ locals.instruction_set \in DOMAIN machine_code
                /\ machine_code[locals.instruction_set] = MachineCodeInFile
    /\ (pc = "done" /\ Decoded("object_file_type") /\ HasBytes(20)) =>
          IF MachineCodeInFile \in NamedMachineCodes \cup ReservedMachineCodes
          THEN Decoded("instruction_set")
          ELSE Rejected("Unsupported instructoin set")
    /\ HeaderReturned => elf_binary.header.instruction_set = locals.instruction_set

C8_Witness ==
    /\ Decoded("instruction_set") /\ HasBytes(20)
    /\ MachineCodeInFile = \h23
    /\ locals.instruction_set = "Reserved"

\* C9: in a decoded header every multi-byte field is the integer at its
\* fixed position, in the declared byte order: object-type at 0x10,
\* instruction-set at 0x12, format-version at 0x14, entry-point at 0x18 (4 or
\* 8 bytes), then program-header-offset, section-header-offset, flags (4
\* bytes) and six 2-byte fields; the cursor ends at 52 (32-bit) or 64 (64-bit).
C9_HeaderFieldPositions ==
    HeaderReturned =>
       LET h == elf_binary.header
           W == IF file[5] = 1 THEN 4 ELSE 8
           tail == \h18 + 3 * W
       IN  /\ HasBytes(tail + 16)
           /\ object_type_code[h.object_file_type] = FileU16(\h10)
           /\ \/ h.instruction_set = "Reserved" /\ FileU16(\h12) \in ReservedMachineCodes
              \/ h.instruction_set # "Reserved"
                   /\ machine_code[h.instruction_set] = FileU16(\h12)
           /\ Len(h.elf_version) = 4 /\ IsFileInt(h.elf_version, \h14, 4)
           /\ Len(h.entry_point) = 8 /\ IsFileInt(h.entry_point, \h18, W)
           /\ Len(h.program_header_offset) = 8
           /\ IsFileInt(h.program_header_offset, \h18 + W, W)
           /\ Len(h.section_header_offset) = 8
           /\ IsFileInt(h.section_header_offset, \h18 + 2 * W, W)
           /\ Len(h.flags) = 4 /\ IsFileInt(h.flags, tail, 4)
           /\ h.header_size = FileU16(tail + 4)
           /\ h.program_header_entry_size = FileU16(tail + 6)
           /\ h.program_header_entry_count = FileU16(tail + 8)
           /\ h.section_header_entry_size = FileU16(tail + 10)
           /\ h.section_header_entry_count = FileU16(tail + 12)
           /\ h.section_header_sections_table_index = FileU16(tail + 14)
           /\ pc = "match_to_process" => pointer = IF file[5] = 1 THEN 52 ELSE 64

C9_Witness ==
    /\ pc = "match_to_process"
    /\ file[5] = 2 /\ file[6] = 2
    /\ SubSeq(file, \h18 + 1, \h18 + 8) = <<8, 7, 6, 5, 4, 3, 2, 1>>
    /\ elf_binary.header.entry_point = <<1, 2, 3, 4, 5, 6, 7, 8>>
    /\ pointer = 64

\* C10: round trip: the bytes that encode a header value decode, with
\* parse_file, to exactly that header value.
C10_RoundTrip ==
    (pc = "done" /\ given # DefaultElfHeader) =>
       /\ file = EncodeHeader(given)
       /\ ret.kind = "Ok"
       /\ elf_binary.header = given
       /\ elf_binary.content = file

C10_Witness ==
    /\ pc = "done" /\ ret.kind = "Ok"
    /\ given.platform_type = "Bit64" /\ given.endianness = "Little"
    /\ given.object_file_type = "EtExec" /\ given.instruction_set = "AmdX86_64"
    /\ given.entry_point = usize_lit(\h401000)
    /\ file = EncodeHeader(given)
    /\ elf_binary.header = given

(***************************************************************************)
(* The twin of the image: the same bytes with the other data-order byte.   *)
(* Its fields are what the readers of the header return on these bytes     *)
(* under the other order.                                                  *)
(***************************************************************************)
OtherOrder == IF elf_binary.header.endianness = "Little" THEN "Big" ELSE "Little"

\* The twin decodes too: its object-type and instruction-set codes are recognized.
TwinDecodes ==
    /\ object_file_type_at(\h10, content, OtherOrder) # "Err"
    /\ instruction_set_at(\h12, content, OtherOrder) # "Err"

\* The W bytes at image offset off read the same in both directions.
Palindrome(off, W) == \A i \in 1 .. W : file[off + i] = file[off + W + 1 - i]

\* The multi-byte numeric fields of the header: the value decoded, the
\* twin's value, the field's offset and width.
NumericFields ==
    LET h == elf_binary.header
        W == word_size(h.platform_type)
        tail == \h18 + 3 * W
        u16(v, off) == [own |-> v, twin |-> u16_from(OtherOrder, Bytes(off, content, 2)),
                        off |-> off, width |-> 2]
        u32(v, off) == [own |-> v, twin |-> u32_from(OtherOrder, Bytes(off, content, 4)),
                        off |-> off, width |-> 4]
        word(v, off) == [own |-> v,
                         twin |-> read_word(off, content, h.platform_type, OtherOrder),
                         off |-> off, width |-> W]
    IN  <<u32(h.elf_version, \h14),
          word(h.entry_point, \h18),
          word(h.program_header_offset, \h18 + W),
          word(h.section_header_offset, \h18 + 2 * W),
          u32(h.flags, tail),
          u16(h.header_size, tail + 4),
          u16(h.program_header_entry_size, tail + 6),
          u16(h.program_header_entry_count, tail + 8),
          u16(h.section_header_entry_size, tail + 10),
          u16(h.section_header_entry_count, tail + 12),
          u16(h.section_header_sections_table_index, tail + 14)>>

\* C11 (as stated): in the decodes of two images that differ only in the
\* data-order byte, every multi-byte numeric field has a different value.
C11_EveryFieldDiffers ==
    (HeaderReturned /\ TwinDecodes) =>
       \A k \in DOMAIN NumericFields : NumericFields[k].own # NumericFields[k].twin

\* C11 (amended): in the decodes of two images that differ only in the
\* data-order byte, a multi-byte numeric field has a different value exactly
\* when its bytes do not read the same in both directions; a field whose
\* bytes are a palindrome (all zero, for one) has the same value in both.
C11_FieldDiffersUnlessPalindrome ==
    (HeaderReturned /\ TwinDecodes) =>
       \A k \in DOMAIN NumericFields :
          LET f == NumericFields[k] IN
          (f.own = f.twin) <=> Palindrome(f.off, f.width)

C11_Witness ==
    /\ HeaderReturned /\ TwinDecodes
    /\ LET f == NumericFields IN
          /\ f[5].own = f[5].twin /\ f[5].own = Zeros(4)
          /\ f[2].own # f[2].twin
          /\ f[2].own = usize_lit(\h401000)

\* C12: every header returned by a successful decode satisfies the geometry
\* invariant: the magic is the fixed sequence, the class is 32- or 64-bit,
\* the order little or big, and each table (offset + entry size x entry
\* count) lies within the image.
C12_GeometryInvariant ==
    (HeaderReturned /\ pc = "done" /\ ret.kind = "Ok") =>
       LET h == elf_binary.header IN
       /\ h.magic_number = ElfMagic
       /\ h.platform_type \in {"Bit32", "Bit64"}
       /\ h.endianness \in {"Little", "Big"}
       /\ usize_val(h.program_header_offset)
             + h.program_header_entry_size * h.program_header_entry_count <= Len(file)
       /\ usize_val(h.section_header_offset)
             + h.section_header_entry_size * h.section_header_entry_count <= Len(file)

(***************************************************************************)
(* The tables as the file's bytes give them.                               *)
(***************************************************************************)
FileWordSize == IF file[5] = 1 THEN 4 ELSE 8

\* The W-byte integer at image offset off, as a position in the image.
FileNum(off, W) ==
    IF \E i \in 4 .. W : FileDigit(off, W, i) # 0 THEN Beyond
    ELSE FileDigit(off, W, 1) + 256 * FileDigit(off, W, 2)
         + 256 * 256 * FileDigit(off, W, 3)

\* The 4-byte integer at image offset off.
FileU32(off) == [i \in 1 .. 4 |-> FileDigit(off, 4, i)]

\* The word-size integer at image offset off, zero-extended.
FileWord(off) ==
    [i \in 1 .. 8 |-> IF i <= FileWordSize THEN FileDigit(off, FileWordSize, i) ELSE 0]

PhOff == FileNum(\h18 + FileWordSize, FileWordSize)

ShOff == FileNum(\h18 + 2 * FileWordSize, FileWordSize)

PhNum == FileU16(\h18 + 3 * FileWordSize + 8)

ShNum == FileU16(\h18 + 3 * FileWordSize + 12)

\* A program header entry: 4 + 4 + 6 words.  A section header entry:
\* 4 + 4 + 4 words + 4 + 4 + 2 words.
PhSlotLen == 8 + 6 * FileWordSize

ShSlotLen == 16 + 6 * FileWordSize

\* Where the i-th slot (i = 1 is the first) of each table starts.
PhSlot(i) == PhOff + (i - 1) * PhSlotLen

ShSlot(i) == ShOff + (i - 1) * ShSlotLen

\* parse_program_header has returned its table to parse_file.
ProgramTableReturned ==
    /\ HeaderReturned
    /\ \/ to_process = "ProgramHeader" /\ pc = "done" /\ ret.kind = "Ok"
       \/ to_process = "All" /\ (pc = "parse_section_header_entry" \/ ret.kind = "Ok")

\* C13: program-header decode starts at the header's program-header-offset
\* and returns exactly entry-count entries, the i-th from the i-th
\* consecutive slot, whatever the fields hold: a segment type 0x99999999 is
\* decoded to the unknown sentinel, its entry kept in place, and a table
\* that lies within the image always decodes.
C13_ProgramTable ==
    /\ pc = "parse_program_header_entry" =>
          /\ Len(inner) + left = PhNum
          /\ pointer = PhSlot(Len(inner) + 1)
    /\ ProgramTableReturned =>
          /\ Len(elf_binary.program_header) = PhNum
          /\ \A i \in 1 .. PhNum :
                LET e == elf_binary.program_header[i]
                    at_offset == PhSlot(i) + IF FileWordSize = 8 THEN 8 ELSE 4
                IN  /\ e.segment_offset = FileWord(at_offset)
                    /\ FileU32(PhSlot(i)) = <<\h99, \h99, \h99, \h99>>
                          => e.segment_type = "PtUnknown"
    /\ (pc = "done" /\ HeaderReturned /\ to_process = "ProgramHeader"
          /\ PhOff + PhNum * PhSlotLen <= Len(file)) => ret.kind = "Ok"

C13_Witness ==
    /\ pc = "done" /\ to_process = "ProgramHeader" /\ ret.kind = "Ok"
    /\ PhNum = 2 /\ Len(elf_binary.program_header) = 2
    /\ FileU32(PhSlot(2)) = <<\h99, \h99, \h99, \h99>>
    /\ elf_binary.program_header[1].segment_type = "PtLoad"
    /\ elf_binary.program_header[1].segment_offset = usize_lit(4096)
    /\ elf_binary.program_header[2].segment_type = "PtUnknown"
    /\ elf_binary.program_header[2].segment_offset = usize_lit(8192)

\* The program header entries decoded so far.
DecodedProgramEntries ==
    IF pc = "parse_program_header_entry" THEN inner ELSE elf_binary.program_header

\* The decoded variant v and the 4-byte integer at image offset off are
\* related by the table `code` of the variants' codes; `unknown` is the
\* variant of every code outside the table.
VariantIsCodeAt(v, off, code, unknown) ==
    IF v = unknown
    THEN \A n \in DOMAIN code : FileU32(off) # u32_lit(code[n])
    ELSE v \in DOMAIN code /\ FileU32(off) = u32_lit(code[v])

\* C14: a program header entry is decoded in the field order of its class:
\* 64-bit: type, flags (4 bytes each), offset, vaddr, paddr, file-size,
\* memory-size, alignment (8 bytes each); 32-bit: type (4), offset, vaddr,
\* paddr, file-size, memory-size (4 each), flags (4), alignment (4).  Each
\* field is the integer at that position in the declared order, and the
\* flags are read once: an entry takes 56 or 32 bytes of the cursor.
C14_ProgramEntryLayout ==
    /\ \A i \in DOMAIN DecodedProgramEntries :
          LET e == DecodedProgramEntries[i]
              b == PhSlot(i)
              W == FileWordSize
              at_flags == IF W = 8 THEN b + 4 ELSE b + 24
              at_words == IF W = 8 THEN b + 8 ELSE b + 4
              at_align == IF W = 8 THEN b + 48 ELSE b + 28
          IN  /\ VariantIsCodeAt(e.segment_type, b, segment_type_code, "PtUnknown")
              /\ VariantIsCodeAt(e.segment_flags, at_flags, segment_flags_code, "PfUnknown")
              /\ e.segment_offset = FileWord(at_words)
              /\ e.segment_vaddr = FileWord(at_words + W)
              /\ e.segment_paddr = FileWord(at_words + 2 * W)
              /\ e.segment_file_size = FileWord(at_words + 3 * W)
              /\ e.segment_memory_size = FileWord(at_words + 4 * W)
              /\ e.segment_allignment = FileWord(at_align)
    /\ pc = "parse_program_header_entry" =>
          pointer = PhOff + Len(inner) * (IF FileWordSize = 8 THEN 56 ELSE 32)

C14_Witness ==
    /\ pc = "done" /\ ret.kind = "Ok" /\ file[5] = 1 /\ file[6] = 2
    /\ Len(elf_binary.program_header) = 2
    /\ SubSeq(file, PhOff + 1, PhOff + 32) =
          <<\hA4, \hA3, \hA2, \hA1, \h14, \h13, \h12, \h11, \h24, \h23, \h22, \h21,
            \h34, \h33, \h32, \h31, \h44, \h43, \h42, \h41, \h54, \h53, \h52, \h51,
            \hB4, \hB3, \hB2, \hB1, \h64, \h63, \h62, \h61>>
    /\ elf_binary.program_header[1] =
          [segment_type |-> "PtUnknown", segment_flags |-> "PfUnknown",
           segment_offset |-> <<\h11, \h12, \h13, \h14, 0, 0, 0, 0>>,
           segment_vaddr |-> <<\h21, \h22, \h23, \h24, 0, 0, 0, 0>>,
           segment_paddr |-> <<\h31, \h32, \h33, \h34, 0, 0, 0, 0>>,
           segment_file_size |-> <<\h41, \h42, \h43, \h44, 0, 0, 0, 0>>,
           segment_memory_size |-> <<\h51, \h52, \h53, \h54, 0, 0, 0, 0>>,
           segment_allignment |-> <<\h61, \h62, \h63, \h64, 0, 0, 0, 0>>]
    /\ elf_binary.program_header[2].segment_flags = "PfUnknown"

\* Where the flags of the i-th program header entry are.
PhFlagsAt(i) == PhSlot(i) + IF FileWordSize = 8 THEN 4 ELSE 24

\* C15: segment-type decode maps the codes 0..7 to their named variants,
\* every code of 0x60000000..0x6FFFFFFF to an OS-specific variant, every code
\* of 0x70000000..0x7FFFFFFF to a processor-specific variant, and any other
\* code to the unknown sentinel.
C15_SegmentTypeRanges ==
    \A i \in DOMAIN DecodedProgramEntries :
       LET v == DecodedProgramEntries[i].segment_type
           c == FileU32(PhSlot(i))
       IN  CASE c[2] = 0 /\ c[3] = 0 /\ c[4] = 0 /\ c[1] \in 0 .. 7 ->
                  v = <<"PtNull", "PtLoad", "PtDynamic", "PtInterp", "PtNote",
                        "PtShlib", "PtPhdr", "PtTls">>[c[1] + 1]
             [] c[4] \in \h60 .. \h6F -> v \in {"PtLoos", "PtHios"}
             [] c[4] \in \h70 .. \h7F -> v \in {"PtLoproc", "PtHiproc"}
             [] OTHER -> v = "PtUnknown"

C17_FailedEntryIsDropped ==
    (pc = "done" /\ HeaderReturned /\ to_process = "ProgramHeader") =>
       /\ ret.kind = "Ok"
       /\ Len(elf_binary.program_header) =
             Cardinality({i \in 1 .. PhNum : PhSlot(i) + PhSlotLen <= Len(file)})

\* The section header entries decoded so far.
DecodedSectionEntries ==
    IF pc = "parse_section_header_entry" THEN inner ELSE elf_binary.section_header

\* Where the flags of the i-th section header entry are.
ShFlagsAt(i) == ShSlot(i) + 8

\* The decoded section flags v and the word-size integer at image offset off
\* are related by the table of the flags' codes.
FlagsVariantIsCodeAt(v, off) ==
    IF v = "ShfNull"
    THEN \A n \in DOMAIN section_flags_code :
            FileWord(off) # as_usize(section_flags_code[n])
    ELSE /\ v \in DOMAIN section_flags_code
         /\ FileWord(off) = as_usize(section_flags_code[v])

\* C18: a section header entry is decoded in the order name-offset (4
\* bytes), section-type (4), section-flags, virtual-address, file-offset, size
\* (a word each), link (4), info (4), address-alignment, entry-size (a word
\* each), a word being 4 bytes on 32-bit and 8 on 64-bit images; each field is
\* the integer at that position in the declared order.
C18_SectionEntryLayout ==
    /\ \A i \in DOMAIN DecodedSectionEntries :
          LET e == DecodedSectionEntries[i]
              b == ShSlot(i)
              W == FileWordSize
          IN  /\ e.section_name_offset = FileU32(b)
              /\ VariantIsCodeAt(e.section_header_type, b + 4, section_type_code, "ShtNull")
              /\ FlagsVariantIsCodeAt(e.section_flags, b + 8)
              /\ e.section_addr = FileWord(b + 8 + W)
              /\ e.section_offset = FileWord(b + 8 + 2 * W)
              /\ e.section_size = FileWord(b + 8 + 3 * W)
              /\ e.section_link = FileU32(b + 8 + 4 * W)
              /\ e.section_info = FileU32(b + 12 + 4 * W)
              /\ e.section_addr_allign = FileWord(b + 16 + 4 * W)
              /\ e.section_entry_size = FileWord(b + 16 + 5 * W)
    /\ pc = "parse_section_header_entry" =>
          /\ Len(inner) + left = ShNum
          /\ pointer = ShOff + Len(inner) * (IF FileWordSize = 8 THEN 64 ELSE 40)

C18_Witness ==
    /\ pc = "done" /\ ret.kind = "Ok" /\ file[5] = 2 /\ file[6] = 1
    /\ Len(elf_binary.section_header) = 2
    /\ SubSeq(file, ShOff + 41, ShOff + 48) = <<\hC1, \hC2, \hC3, \hC4, \hD1, \hD2, \hD3, \hD4>>
    /\ LET e == elf_binary.section_header[1] IN
          /\ e.section_name_offset = <<\hA1, \hA2, \hA3, \hA4>>
          /\ e.section_header_type = "ShtNull" /\ e.section_flags = "ShfNull"
          /\ e.section_addr = <<\h21, \h22, \h23, \h24, \h25, \h26, \h27, \h28>>
          /\ e.section_offset = <<\h31, \h32, \h33, \h34, \h35, \h36, \h37, \h38>>
          /\ e.section_size = <<\h41, \h42, \h43, \h44, \h45, \h46, \h47, \h48>>
          /\ e.section_link = <<\hC1, \hC2, \hC3, \hC4>>
          /\ e.section_info = <<\hD1, \hD2, \hD3, \hD4>>
          /\ e.section_addr_allign = <<\h51, \h52, \h53, \h54, \h55, \h56, \h57, \h58>>
          /\ e.section_entry_size = <<\h61, \h62, \h63, \h64, \h65, \h66, \h67, \h68>>

\* The section name table of the header lies within the image, and so does
\* the section header table.
ShStrNdx == FileU16(\h18 + 3 * FileWordSize + 14)

SectionTablesInImage ==
    /\ ShOff + ShNum * ShSlotLen <= Len(file)
    /\ ShStrNdx < ShNum
    /\ LET b == ShSlot(ShStrNdx + 1) + 8 + 2 * FileWordSize IN
          FileNum(b, FileWordSize) + FileNum(b + FileWordSize, FileWordSize) <= Len(file)

\* C19 (as stated): section-type decode maps every code of 0x0..0x13 and the
\* code 0x60000000 to its named variant: 0 to the unused variant, each of
\* 0x1..0x13 to a variant other than the Null sentinel.
C19_EveryLowCodeIsNamed ==
    \A i \in DOMAIN DecodedSectionEntries :
       LET c == FileU32(ShSlot(i) + 4) IN
       c \in {u32_lit(n) : n \in \h1 .. \h13} \cup {u32_lit(\h60000000)}
          => DecodedSectionEntries[i].section_header_type # "ShtNull"

\* C19 (amended): section-type decode maps the codes 0x1..0xB, 0xE..0x13 and
\* 0x60000000 each to its own named variant, and every other code, 0x0, 0xC
\* and 0xD included, to ShtNull; no code fails the entry or the table decode.
C19_SectionTypeCodes ==
    /\ \A i \in DOMAIN DecodedSectionEntries :
          LET v == DecodedSectionEntries[i].section_header_type
              c == FileU32(ShSlot(i) + 4)
          IN  IF c \in {u32_lit(n) : n \in (\h1 .. \h0B) \cup (\h0E .. \h13)}
                         \cup {u32_lit(\h60000000)}
              THEN /\ v # "ShtNull" /\ v \in DOMAIN section_type_code
                   /\ u32_lit(section_type_code[v]) = c
              ELSE v = "ShtNull"
    /\ (pc = "done" /\ HeaderReturned /\ to_process = "SectionHeader"
          /\ SectionTablesInImage)
          => ret.kind = "Ok" /\ Len(elf_binary.section_header) = ShNum

C19_Witness ==
    /\ pc = "done" /\ ret.kind = "Ok" /\ to_process = "SectionHeader"
    /\ Len(elf_binary.section_header) = 2
    /\ FileU32(ShSlot(1) + 4) = <<\h0C, 0, 0, 0>>
    /\ elf_binary.section_header[1].section_header_type = "ShtNull"
    /\ elf_binary.section_header[2].section_header_type = "ShtStrtab"

\* Exactly one bit of the 8-digit value d is set.
OneBit(d) ==
    \E k \in 1 .. 8 :
       /\ d[k] \in {1, 2, 4, 8, 16, 32, 64, 128}
       /\ \A j \in (1 .. 8) \ {k} : d[j] = 0

\* C20 (as stated): a section flags variant other than Null is produced only
\* when exactly one bit of the raw value is set.
C20_OnlySingleBits ==
    \A i \in DOMAIN DecodedSectionEntries :
       DecodedSectionEntries[i].section_flags # "ShfNull"
          => OneBit(FileWord(ShFlagsAt(i)))

\* C20 (amended): section flags decode by exact match against the named
\* constants: the twelve single-bit flags and the two multi-bit masks
\* 0x0FF00000 (ShfMaskos) and 0xF0000000 (ShfMaskproc); every other raw
\* value, 0 and every other multi-bit value included, decodes to ShfNull.
C20_SectionFlagsExactMatch ==
    \A i \in DOMAIN DecodedSectionEntries :
       LET v == DecodedSectionEntries[i].section_flags
           f == FileWord(ShFlagsAt(i))
       IN  CASE f = <<0, 0, \hF0, \h0F, 0, 0, 0, 0>> -> v = "ShfMaskos"
             [] f = <<0, 0, 0, \hF0, 0, 0, 0, 0>> -> v = "ShfMaskproc"
             [] OneBit(f) /\ f[5] = 0 /\ f[6] = 0 /\ f[7] = 0 /\ f[8] = 0
                  /\ f[1] # 8 /\ f[2] \in 0 .. 4 /\ f[3] = 0 /\ f[4] \in {0, 4, 8} ->
                    /\ v # "ShfNull" /\ v \in DOMAIN section_flags_code
                    /\ as_usize(section_flags_code[v]) = f
             [] OTHER -> v = "ShfNull"

C20_Witness ==
    /\ pc = "done" /\ ret.kind = "Ok"
    /\ Len(elf_binary.section_header) = 2
    /\ FileWord(ShFlagsAt(1)) = <<0, 0, \hF0, \h0F, 0, 0, 0, 0>>
    /\ elf_binary.section_header[1].section_flags = "ShfMaskos"

ProgramTableInImage ==
    to_process \in {"ProgramHeader", "All"} => PhOff + PhNum * PhSlotLen <= Len(file)

\* C22: a section header entry that fails to decode (its bytes run past the
\* end of the image) is fatal to the section table decode:
\* parse_section_header returns an error and no section entries, and
\* parse_file returns that error.
C22_EntryFailureIsAnError ==
    (/\ pc = "done" /\ HeaderReturned
     /\ to_process \in {"SectionHeader", "Data", "All"}
     /\ ProgramTableInImage
     /\ ShOff + ShNum * ShSlotLen > Len(file))
       => ret.kind = "Err" /\ elf_binary.section_header = <<>>

\* Where the section name table is in the image, and its size.
StrTabOff == FileNum(ShSlot(ShStrNdx + 1) + 8 + 2 * FileWordSize, FileWordSize)

StrTabSize == FileNum(ShSlot(ShStrNdx + 1) + 8 + 3 * FileWordSize, FileWordSize)

\* A NUL-terminated string starts at image offset off and ends within the
\* section name table; the string (its bytes, which are ASCII).
HasStringAt(off) ==
    \E k \in off + 1 .. StrTabOff + StrTabSize : k <= Len(file) /\ file[k] = 0

StringAt(off) ==
    LET k == CHOOSE n \in off + 1 .. Len(file) :
                 file[n] = 0 /\ \A j \in off + 1 .. n - 1 : file[j] # 0
    IN  SubSeq(file, off + 1, k - 1)

\* C23: after the section table decode, the name of every entry is the
\* NUL-terminated string that starts at (name table offset + the entry's
\* name offset), whatever the order of the entries: with the name table
\* ".text\0.data\0", name offset 0 is ".text" and name offset 6 is ".data".
C23_NameIsStringAtNameOffset ==
    (pc = "done" /\ ret.kind = "Ok" /\ to_process \in {"SectionHeader", "Data", "All"})
       => \A i \in DOMAIN elf_binary.section_header :
             LET e == elf_binary.section_header[i]
                 at == StrTabOff + usize_val(as_usize(e.section_name_offset))
             IN  HasStringAt(at) => e.section_name = StringAt(at)

\* The stages of parse_file after parse_header has returned.
AfterHeader == {"match_to_process", "parse_program_header_entry",
                "parse_section_header_entry", "done"}

\* C24: tables are decoded only if requested.  In Header mode both tables
\* stay empty and the cursor never leaves the header; in ProgramHeader mode
\* only the program table is decoded; in SectionHeader and Data modes only
\* the section table; in All mode both, the program table first.  In every
\* mode the header is decoded exactly once: elf_binary.header is assigned
\* once, by parse_header, and no stage of the header decode runs again.
C24_TablesOnlyIfRequested ==
    /\ [](/\ to_process = "Header" =>
                /\ pc \notin {"parse_program_header_entry", "parse_section_header_entry"}
                /\ elf_binary.program_header = <<>> /\ elf_binary.section_header = <<>>
                /\ pointer <= IF HasBytes(5) THEN 40 + 3 * FileWordSize ELSE 5
          /\ to_process = "ProgramHeader" =>
                /\ pc # "parse_section_header_entry"
                /\ elf_binary.section_header = <<>>
                /\ (pc = "done" /\ ret.kind = "Ok") =>
                      Len(elf_binary.program_header) = PhNum
          /\ to_process \in {"SectionHeader", "Data"} =>
                /\ pc # "parse_program_header_entry"
                /\ elf_binary.program_header = <<>>
                /\ (pc = "done" /\ ret.kind = "Ok") =>
                      Len(elf_binary.section_header) = ShNum
          /\ to_process = "All" =>
                /\ pc = "parse_section_header_entry" =>
                      Len(elf_binary.program_header) = PhNum
                /\ (pc = "done" /\ ret.kind = "Ok") =>
                      /\ Len(elf_binary.program_header) = PhNum
                      /\ Len(elf_binary.section_header) = ShNum
          /\ HeaderReturned => pc \in AfterHeader)
    /\ [][/\ elf_binary'.header # elf_binary.header =>
                pc = "parse_header" /\ elf_binary.header = DefaultElfHeader
          /\ pc \in AfterHeader => pc' \in AfterHeader \ {"match_to_process"}]_vars

C24_Witness ==
    /\ pc = "done" /\ ret.kind = "Ok" /\ to_process = "Header"
    /\ PhNum = 2 /\ ShNum = 2 /\ HeaderReturned
    /\ elf_binary.program_header = <<>> /\ elf_binary.section_header = <<>>

\* The tables a decode of the image alone produces, each from the header's
\* offset of its table: functions of the image, not of the part requested
\* nor of what was decoded before.
FilePlatform == IF file[5] = 1 THEN "Bit32" ELSE "Bit64"

FileEndian == IF file[6] = 1 THEN "Little" ELSE "Big"

ProgramTableOfImage ==
    [i \in 1 .. PhNum |-> program_header_entry_at(PhSlot(i), file, FileEndian, FilePlatform)]

SectionTableOfImage ==
    zip_names([i \in 1 .. ShNum |->
                  section_header_entry_at(ShSlot(i), file, FileEndian, FilePlatform)],
              split_nul(SubSeq(file, StrTabOff + 1, StrTabOff + StrTabSize)))

\* C25: program header decode and section header decode have no ordering
\* dependency: the section table of All mode, decoded after the program
\* table, is the section table of SectionHeader mode, and the program table
\* of All mode is that of ProgramHeader mode, both being the tables of the
\* image alone; each table decode starts at the header's offset of its
\* table, not where the cursor was left.
C25_NoOrderingDependency ==
    /\ (pc = "parse_program_header_entry" /\ inner = <<>>) => pointer = PhOff
    /\ (pc = "parse_section_header_entry" /\ inner = <<>>) => pointer = ShOff
    /\ ProgramTableReturned => elf_binary.program_header = ProgramTableOfImage
    /\ (pc = "done" /\ ret.kind = "Ok" /\ to_process \in {"SectionHeader", "Data", "All"})
          => elf_binary.section_header = SectionTableOfImage

C25_Witness ==
    /\ pc = "done" /\ ret.kind = "Ok" /\ to_process = "All"
    /\ PhNum = 2 /\ ShNum = 2
    /\ ShOff = PhOff + PhNum * PhSlotLen + MaxGap
    /\ Len(elf_binary.program_header) = 2
    /\ Len(elf_binary.section_header) = 2
    /\ elf_binary.section_header[1].section_name = <<46, 116, 101, 120, 116>>

\* C28: during name resolution parse_section_header reads the entry at the
\* name table index only when the index is smaller than the number of
\* decoded entries, and slices the image at [offset, offset + size) only
\* when that range lies within the image: once every entry has decoded, no
\* access is out of range, and a header with section entry count 0 yields
\* an empty section table.
C28_NameResolutionIsGuarded ==
    (/\ pc = "done" /\ HeaderReturned
     /\ to_process \in {"SectionHeader", "Data", "All"}
     /\ ProgramTableInImage
     /\ ShOff + ShNum * ShSlotLen <= Len(file))
       => /\ ret.kind # "Panic"
          /\ ShNum = 0 => ret.kind = "Ok" /\ elf_binary.section_header = <<>>

\* The entry sizes the header declares for its two tables.
PhEntSize == FileU16(\h18 + 3 * FileWordSize + 6)

ShEntSize == FileU16(\h18 + 3 * FileWordSize + 10)

\* C29: entry k (k = 0 is the first) of a table is decoded from the bytes at
\* table offset + k * S, S being the entry size the header declares for the
\* table: the cursor advance per decoded entry is the declared entry size.
C29_StrideIsDeclaredEntrySize ==
    /\ pc = "parse_program_header_entry" => pointer = PhOff + Len(inner) * PhEntSize
    /\ pc = "parse_section_header_entry" => pointer = ShOff + Len(inner) * ShEntSize
    /\ \A i \in DOMAIN DecodedProgramEntries :
          LET at == PhOff + (i - 1) * PhEntSize + IF FileWordSize = 8 THEN 8 ELSE 4 IN
          at + FileWordSize <= Len(file)
             => DecodedProgramEntries[i].segment_offset = FileWord(at)
    /\ \A i \in DOMAIN DecodedSectionEntries :
          LET at == ShOff + (i - 1) * ShEntSize IN
          at + 4 <= Len(file)
             => DecodedSectionEntries[i].section_name_offset = FileU32(at)

\* C30: name resolution changes only the section_name of the section
\* entries: when parse_section_header has returned, the entries are as many
\* and in the order they were decoded, every field but the name is as
\* decoded from the table bytes, and the image kept in elf_binary.content is
\* the bytes read from the file.
C30_OnlyNamesChange ==
    /\ HeaderReturned => elf_binary.content = file /\ content = file
    /\ (pc = "done" /\ ret.kind = "Ok" /\ to_process \in {"SectionHeader", "Data", "All"})
          => /\ Len(elf_binary.section_header) = ShNum
             /\ Len(inner) = ShNum
             /\ \A i \in 1 .. ShNum :
                   /\ [elf_binary.section_header[i] EXCEPT !.section_name = <<>>] = inner[i]
                   /\ inner[i] = section_header_entry_at(ShSlot(i), file, FileEndian,
                                                         FilePlatform)

C30_Witness ==
    /\ pc = "done" /\ ret.kind = "Ok" /\ to_process = "SectionHeader"
    /\ ShNum = 2 /\ StrTabSize = 5
    /\ elf_binary.section_header[1].section_name = <<46, 116, 101, 120, 116>>
    /\ elf_binary.section_header[2].section_name = <<>>
    /\ elf_binary.section_header[2].section_header_type = "ShtStrtab"
    /\ elf_binary.section_header[1].section_name_offset = <<6, 0, 0, 0>>

\* C26: the header is the default part: when the program is invoked with
\* only -f <path> and no part-selection flag, main decodes the ELF header of
\* that file and displays it before it exits.
C26_HeaderIsDefault ==
    (pc = "exit" /\ args_1 = <<"elfp", "-f", "a.elf">>)
       => /\ ret.kind = "Ok"
          /\ Len(shown) = 1
          /\ shown[1].part = "Header"
          /\ shown[1].out # <<<<DefaultElfHeader>>>>

\* parse_file in mode `decoded` decodes everything the display of `part` shows.
Covers(decoded, part) ==
    \/ decoded = "All"
    \/ part = "Header"
    \/ part = "ProgramHeader" /\ decoded = "ProgramHeader"
    \/ part \in {"SectionHeader", "Data"} /\ decoded \in {"SectionHeader", "Data"}

\* C27: in every iteration of main's loop the part that is displayed (chosen
\* by Cli::parse over the arguments from the i-th on) is a part parse_file
\* decoded in that iteration (chosen by Cli::parse over all the arguments):
\* main never displays a table left at its empty default because it was not
\* decoded.
C27_DisplayedPartWasDecoded ==
    \A k \in DOMAIN shown : Covers(shown[k].decoded, shown[k].part)

====
